---- MODULE Spec2Model ----
(***************************************************************************)
(* A model of terraform-config-parser: the expression normaliser of        *)
(* pkg/parser/schema/schema.go, the block decoders of the schema package   *)
(* and the workspace aggregator of pkg/parser/parser.go.                   *)
(*                                                                         *)
(* Text (Go string, []byte) is a sequence of one-character strings.        *)
(* A number (cty.Number, a big.Float) is [neg, mag, frac]: mag is the      *)
(* integer part as limbs of nine decimal digits, most significant first,   *)
(* and frac counts quarters, so that values beyond 64 bits are exact.      *)
(***************************************************************************)
EXTENDS Integers, Sequences, FiniteSets, TLC

(***************************************************************************)
(* The state.  exFile, exAttr, exRet: one call of an attribute parser, its *)
(* arguments and its result.  dcFile, dcBlock, dcRet: one call of a block  *)
(* decoder, and dcSum the summary of its record.  Then the workspace       *)
(* parse: the file system fs, the file table of p.hcl (hclFiles), the      *)
(* position in ParseTerraformWorkspace (pc) with its locals dirFiles, idx  *)
(* (the loop over dirFiles) and aggBlocks, what the call returned (ret),   *)
(* and whether a file was rewritten; mode is the parsing level the Parser  *)
(* was made with.  Last the git source: the GitSource (gitSrc), the tokens *)
(* of the environment (gitEnv), the clone options Fetch builds (gitOpts),  *)
(* what Fetch returned (gitRet) and its position (gitPc).                  *)
(***************************************************************************)
VARIABLES exFile, exAttr, exRet,
          dcFile, dcBlock, dcRet, dcSum,
          gitSrc, gitEnv, gitOpts, gitRet, gitPc,
          fs, hclFiles, pc, dirFiles, idx, aggBlocks, ret, written, mode

exVars == <<exFile, exAttr, exRet>>
dcVars == <<dcFile, dcBlock, dcRet, dcSum>>
wsVars == <<fs, hclFiles, pc, dirFiles, idx, aggBlocks, ret, written, mode>>
gitVars == <<gitSrc, gitEnv, gitOpts, gitRet, gitPc>>
vars == <<exVars, dcVars, wsVars, gitVars>>

(***************************************************************************)
(* Bounds of the model.                                                    *)
(***************************************************************************)
MaxStrLen == 5
MaxSrcLen == 3
MaxLabels == 2
MaxFiles == 2
MaxItems == 2

(***************************************************************************)
(* Text helpers: the Go standard library calls the code makes.             *)
(***************************************************************************)
IsSpace(c) == c \in {" ", "\t", "\n"}

RECURSIVE TrimLeftSpace(_)
TrimLeftSpace(s) ==
    IF s = <<>> THEN <<>>
    ELSE IF IsSpace(Head(s)) THEN TrimLeftSpace(Tail(s)) ELSE s

RECURSIVE TrimRightSpace(_)
TrimRightSpace(s) ==
    IF s = <<>> THEN <<>>
    ELSE IF IsSpace(s[Len(s)]) THEN TrimRightSpace(SubSeq(s, 1, Len(s) - 1)) ELSE s

\* strings.TrimSpace
TrimSpace(s) == TrimRightSpace(TrimLeftSpace(s))

LowerChar(c) ==
    CASE c = "T" -> "t"
      [] c = "R" -> "r"
      [] c = "U" -> "u"
      [] c = "E" -> "e"
      [] c = "F" -> "f"
      [] c = "A" -> "a"
      [] c = "L" -> "l"
      [] c = "S" -> "s"
      [] c = "G" -> "g"
      [] c = "H" -> "h"
      [] OTHER -> c

\* strings.ToLower
ToLower(s) == [i \in 1..Len(s) |-> LowerChar(s[i])]

RECURSIVE TrimLeftSet(_, _)
TrimLeftSet(s, cutset) ==
    IF s = <<>> THEN <<>>
    ELSE IF Head(s) \in cutset THEN TrimLeftSet(Tail(s), cutset) ELSE s

RECURSIVE TrimRightSet(_, _)
TrimRightSet(s, cutset) ==
    IF s = <<>> THEN <<>>
    ELSE IF s[Len(s)] \in cutset
         THEN TrimRightSet(SubSeq(s, 1, Len(s) - 1), cutset) ELSE s

\* strings.Trim(s, cutset)
Trim(s, cutset) == TrimRightSet(TrimLeftSet(s, cutset), cutset)

\* strings.Split(s, ","): the pieces between the separators, never empty as a list
RECURSIVE SplitComma(_, _)
SplitComma(s, cur) ==
    IF s = <<>> THEN <<cur>>
    ELSE IF Head(s) = "," THEN <<cur>> \o SplitComma(Tail(s), <<>>)
         ELSE SplitComma(Tail(s), Append(cur, Head(s)))

StrTrue == <<"t", "r", "u", "e">>
StrFalse == <<"f", "a", "l", "s", "e">>
StrNull == <<"n", "u", "l", "l">>

(***************************************************************************)
(* Numbers.                                                                *)
(***************************************************************************)
LimbBase == 10 ^ 9

\* magnitudes are compared limb by limb; no leading zero limb is kept
RECURSIVE MagLess(_, _)
MagLess(a, b) ==
    IF Len(a) # Len(b) THEN Len(a) < Len(b)
    ELSE IF a = <<>> THEN FALSE
    ELSE IF Head(a) # Head(b) THEN Head(a) < Head(b)
    ELSE MagLess(Tail(a), Tail(b))

MagLeq(a, b) == a = b \/ MagLess(a, b)

\* a magnitude plus one
RECURSIVE MagSucc(_)
MagSucc(a) ==
    IF a = <<>> THEN <<1>>
    ELSE IF a[Len(a)] + 1 < LimbBase
         THEN [a EXCEPT ![Len(a)] = @ + 1]
         ELSE Append(MagSucc(SubSeq(a, 1, Len(a) - 1)), 0)

MagIsEven(a) == a[Len(a)] % 2 = 0

\* math.MaxInt64 = 9223372036854775807 and -math.MinInt64 = 9223372036854775808
MaxInt64Mag == <<9, 223372036, 854775807>>
MinInt64Mag == <<9, 223372036, 854775808>>
\* 2^51 and 2^52: where a float64 stops holding quarters and halves
Pow2_51 == <<2251799, 813685248>>
Pow2_52 == <<4503599, 627370496>>

Num(neg, mag, frac) == [neg |-> neg, mag |-> mag, frac |-> frac]

\* big.Float.IsInt
BigFloatIsInt(x) == x.frac = 0

\* big.Float.Int64: truncates towards zero; beyond the int64 range the
\* result is math.MinInt64 or math.MaxInt64 (the accuracy is returned apart)
BigFloatInt64(x) ==
    IF x.neg
    THEN IF MagLeq(x.mag, MinInt64Mag)
         THEN [neg |-> x.mag # <<0>>, mag |-> x.mag]
         ELSE [neg |-> TRUE, mag |-> MinInt64Mag]
    ELSE IF MagLeq(x.mag, MaxInt64Mag)
         THEN [neg |-> FALSE, mag |-> x.mag]
         ELSE [neg |-> FALSE, mag |-> MaxInt64Mag]

\* big.Float.Float64: the nearest float64, ties to even.  Below 2^51 a
\* float64 holds every quarter; from 2^51 it holds halves, from 2^52 units.
\* The non-integers of the model lie below 2^53.
BigFloatFloat64(x) ==
    IF MagLess(x.mag, Pow2_51) THEN Num(x.neg, x.mag, x.frac)
    ELSE IF MagLess(x.mag, Pow2_52)
    THEN CASE x.frac \in {0, 2} -> Num(x.neg, x.mag, x.frac)
           [] x.frac = 1 -> Num(x.neg, x.mag, 0)
           [] x.frac = 3 -> Num(x.neg, MagSucc(x.mag), 0)
    ELSE CASE x.frac \in {0, 1} -> Num(x.neg, x.mag, 0)
           [] x.frac = 3 -> Num(x.neg, MagSucc(x.mag), 0)
           [] x.frac = 2 ->
                IF MagIsEven(x.mag) THEN Num(x.neg, x.mag, 0)
                ELSE Num(x.neg, MagSucc(x.mag), 0)

(***************************************************************************)
(* Go values held in an interface{}: the dynamic type is the tag.          *)
(***************************************************************************)
GoString(s) == [tag |-> "string", str |-> s]
GoInt64(i) == [tag |-> "int64", neg |-> i.neg, mag |-> i.mag]
GoFloat64(f) == [tag |-> "float64", neg |-> f.neg, mag |-> f.mag, frac |-> f.frac]
GoBool(b) == [tag |-> "bool", b |-> b]
GoNil == [tag |-> "nil"]

(***************************************************************************)
(* The syntax tree the hclsyntax parser hands over.  Every expression has  *)
(* a kind (its Go type) and SrcRange, the byte range [Start, End) of its   *)
(* source text; a LiteralValueExpr has Val, a cty value.                   *)
(***************************************************************************)
CtyString(s) == [ty |-> "string", null |-> FALSE, str |-> s]
CtyNumber(n) == [ty |-> "number", null |-> FALSE, num |-> n]
CtyBool(b) == [ty |-> "bool", null |-> FALSE, b |-> b]
CtyNull == [ty |-> "dynamic", null |-> TRUE]

Rng(s, e) == [Start |-> s, End |-> e]

LiteralValueExpr(v, r) == [kind |-> "LiteralValueExpr", Val |-> v, SrcRange |-> r]
TemplateExpr(parts, r) == [kind |-> "TemplateExpr", Parts |-> parts, SrcRange |-> r]
ScopeTraversalExpr(t, r) == [kind |-> "ScopeTraversalExpr", Traversal |-> t, SrcRange |-> r]
TupleConsExpr(es, r) == [kind |-> "TupleConsExpr", Exprs |-> es, SrcRange |-> r]
ObjectConsExpr(items, r) == [kind |-> "ObjectConsExpr", Items |-> items, SrcRange |-> r]
ObjectConsKeyExpr(w, r) == [kind |-> "ObjectConsKeyExpr", Wrapped |-> w, SrcRange |-> r]
OtherExpr(k, r) == [kind |-> k, SrcRange |-> r]

\* the expression kinds that carry nothing the normaliser looks at
OtherKinds ==
    {"TemplateWrapExpr", "FunctionCallExpr", "ConditionalExpr", "BinaryOpExpr",
     "UnaryOpExpr", "IndexExpr", "RelativeTraversalExpr", "SplatExpr", "ForExpr",
     "ParenthesesExpr"}

Attribute(name, e) == [Name |-> name, Expr |-> e]

\* hcl.Range.SliceBytes: the bytes of the range, the range clamped to the buffer
SliceBytes(r, b) ==
    LET clamp(i) == IF i < 0 THEN 0 ELSE IF i > Len(b) THEN Len(b) ELSE i
        start == clamp(r.Start)
        end == IF clamp(r.End) < start THEN start ELSE clamp(r.End)
    IN SubSeq(b, start + 1, end)

\* the fallback that forgets strings.TrimSpace
RawSourceUntrimmed(file, e) == SliceBytes(e.SrcRange, file.Bytes)

\* the fallback of every attribute parser: the trimmed source text
RawSource(file, e) == TrimSpace(SliceBytes(e.SrcRange, file.Bytes))

\* the LiteralValueExpr branch of parseAttributeToInterface
LiteralToInterface(file, e) ==
    CASE e.Val.ty = "string" -> GoString(e.Val.str)
      [] e.Val.ty = "number" ->
            IF BigFloatIsInt(e.Val.num) THEN GoInt64(BigFloatInt64(e.Val.num))
            ELSE GoFloat64(BigFloatFloat64(e.Val.num))
      [] e.Val.ty = "bool" -> GoBool(e.Val.b)
      [] OTHER -> IF e.Val.null THEN GoNil ELSE GoString(RawSource(file, e))

\* whether a template is one literal string part
IsPlainTemplate(e) ==
    /\ e.kind = "TemplateExpr"
    /\ Len(e.Parts) = 1
    /\ e.Parts[1].kind = "LiteralValueExpr"
    /\ e.Parts[1].Val.ty = "string"

ExprToInterface(file, e) ==
    IF e.kind = "LiteralValueExpr" THEN LiteralToInterface(file, e)
    ELSE IF IsPlainTemplate(e) THEN GoString(e.Parts[1].Val.str)
    ELSE GoString(RawSource(file, e))

parseAttributeToInterface(file, attr) == ExprToInterface(file, attr.Expr)

(***************************************************************************)
(* fmt.Sprintf("%d") and fmt.Sprintf("%g").                                *)
(***************************************************************************)
DigitChar(n) == <<"0", "1", "2", "3", "4", "5", "6", "7", "8", "9">>[n + 1]

RECURSIVE NatDigits(_)
NatDigits(n) ==
    IF n < 10 THEN <<DigitChar(n)>>
    ELSE Append(NatDigits(n \div 10), DigitChar(n % 10))

RECURSIVE ZeroPad(_, _)
ZeroPad(s, width) == IF Len(s) >= width THEN s ELSE ZeroPad(<<"0">> \o s, width)

RECURSIVE LimbDigits(_)
LimbDigits(limbs) ==
    IF limbs = <<>> THEN <<>>
    ELSE ZeroPad(NatDigits(Head(limbs)), 9) \o LimbDigits(Tail(limbs))

\* the decimal digits of a magnitude
MagDigits(mag) == NatDigits(Head(mag)) \o LimbDigits(Tail(mag))

Sign(neg) == IF neg THEN <<"-">> ELSE <<>>

\* the digits of the limbs put side by side without their leading zeros
RECURSIVE LimbDigitsUnpadded(_)
LimbDigitsUnpadded(limbs) ==
    IF limbs = <<>> THEN <<>>
    ELSE NatDigits(Head(limbs)) \o LimbDigitsUnpadded(Tail(limbs))

SprintfDUnpadded(v) == Sign(v.neg) \o LimbDigitsUnpadded(v.mag)

\* fmt.Sprintf("%d", v) of an int64
SprintfD(v) == Sign(v.neg) \o MagDigits(v.mag)

FracDigits(frac) ==
    CASE frac = 0 -> <<>>
      [] frac = 1 -> <<"2", "5">>
      [] frac = 2 -> <<"5">>
      [] frac = 3 -> <<"7", "5">>

\* fmt.Sprintf("%g", v) of a float64: the shortest decimal that reads back as
\* v, which for the floats of the model is their exact expansion; with an
\* exponent once the decimal point would stand six or more digits in
SprintfG(v) ==
    LET int == MagDigits(v.mag)
        frac == FracDigits(v.frac)
        all == TrimRightSet(int \o frac, {"0"})
        exp == Len(int) - 1
    IN  IF v.mag = <<0>> THEN Sign(v.neg) \o <<"0", ".">> \o frac
        ELSE IF exp >= 6
        THEN Sign(v.neg) \o <<Head(all)>>
             \o (IF Len(all) > 1 THEN <<".">> \o Tail(all) ELSE <<>>)
             \o <<"e", "+">> \o ZeroPad(NatDigits(exp), 2)
        ELSE Sign(v.neg) \o int \o (IF frac = <<>> THEN <<>> ELSE <<".">> \o frac)

\* the type switch of parseAttributeToString on the parsed value
ValueToString(value) ==
    CASE value.tag = "string" -> value.str
      [] value.tag = "bool" -> IF value.b THEN StrTrue ELSE StrFalse
      [] value.tag = "int64" -> SprintfD(value)
      [] value.tag = "float64" -> SprintfG(value)
      [] value.tag = "nil" -> StrNull

ExprToString(file, e) == ValueToString(ExprToInterface(file, e))

parseAttributeToString(file, attr) == ExprToString(file, attr.Expr)

\* the coercion that compares the string as it is, white space included
ValueToBoolUntrimmed(value) ==
    IF value.tag = "bool" THEN value.b
    ELSE IF value.tag = "string" THEN ToLower(value.str) = StrTrue
    ELSE FALSE

\* the type switch of parseAttributeToBool on the parsed value
ValueToBool(value) ==
    IF value.tag = "bool" THEN value.b
    ELSE IF value.tag = "string" THEN ToLower(TrimSpace(value.str)) = StrTrue
    ELSE FALSE

parseAttributeToBool(file, attr) == ValueToBool(parseAttributeToInterface(file, attr))

(***************************************************************************)
(* Lists and maps of strings.                                              *)
(***************************************************************************)
\* the pieces of the comma split, trimmed of space and quotes, empty ones dropped
KeepPart(part) == IF part # <<>> THEN <<part>> ELSE <<>>

RECURSIVE ExprsToStrings(_, _)
\* the loop that leaves out the elements whose string is empty
ExprsToStringsNoEmpty(file, es) ==
    IF es = <<>> THEN <<>>
    ELSE KeepPart(ExprToString(file, Head(es))) \o ExprsToStrings(file, Tail(es))

ExprsToStrings(file, es) ==
    IF es = <<>> THEN <<>>
    ELSE <<ExprToString(file, Head(es))>> \o ExprsToStrings(file, Tail(es))

RECURSIVE CleanParts(_)
CleanParts(parts) ==
    IF parts = <<>> THEN <<>>
    ELSE KeepPart(Trim(TrimSpace(Head(parts)), {"\""})) \o CleanParts(Tail(parts))

\* the list read out of the source text with its brackets removed
SplitList(raw) == IF raw = <<>> THEN <<>> ELSE CleanParts(SplitComma(raw, <<>>))

parseAttributeToStringList(file, attr) ==
    IF attr.Expr.kind = "TupleConsExpr" THEN ExprsToStrings(file, attr.Expr.Exprs)
    ELSE SplitList(Trim(RawSource(file, attr.Expr), {"[", "]"}))

\* a Go map[string]T is a function; a missing key reads as the zero value
EmptyMap == [k \in {} |-> <<>>]

MapPut(m, k, v) == [x \in DOMAIN m \cup {k} |-> IF x = k THEN v ELSE m[x]]

MapGet(m, k) == IF k \in DOMAIN m THEN m[k] ELSE <<>>

\* cty.Value.AsString panics on a value that is not a string
AsString(v) ==
    IF v.ty = "string" /\ ~v.null THEN [panic |-> FALSE, key |-> v.str]
    ELSE [panic |-> TRUE, key |-> <<>>]

\* hcl.Traversal.RootName
RootName(t) == IF t = <<>> THEN <<>> ELSE Head(t)

extractObjectKey(keyExpr) ==
    CASE keyExpr.kind = "ObjectConsKeyExpr" ->
            IF keyExpr.Wrapped.kind = "LiteralValueExpr"
            THEN AsString(keyExpr.Wrapped.Val)
            ELSE IF keyExpr.Wrapped.kind = "ScopeTraversalExpr"
            THEN [panic |-> FALSE, key |-> RootName(keyExpr.Wrapped.Traversal)]
            ELSE [panic |-> FALSE, key |-> <<>>]
      [] keyExpr.kind = "LiteralValueExpr" -> AsString(keyExpr.Val)
      [] keyExpr.kind = "ScopeTraversalExpr" ->
            [panic |-> FALSE, key |-> RootName(keyExpr.Traversal)]
      [] OTHER -> [panic |-> FALSE, key |-> <<>>]

\* the loop over the items of an object: [panic, m]
RECURSIVE ItemsToMap(_, _, _)
\* one item, its key k extracted: an empty key skips the item
ItemToMap(file, items, m, k) ==
    IF k.panic THEN [panic |-> TRUE, m |-> m]
    ELSE ItemsToMap(file, Tail(items),
                    IF k.key # <<>>
                    THEN MapPut(m, k.key, ExprToString(file, Head(items).ValueExpr))
                    ELSE m)

ItemsToMap(file, items, m) ==
    IF items = <<>> THEN [panic |-> FALSE, m |-> m]
    ELSE ItemToMap(file, items, m, extractObjectKey(Head(items).KeyExpr))

parseAttributeToStringMap(file, attr) ==
    IF attr.Expr.kind = "ObjectConsExpr" THEN ItemsToMap(file, attr.Expr.Items, EmptyMap)
    ELSE [panic |-> FALSE, m |-> EmptyMap]

(***************************************************************************)
(* Blocks and their decoders.  A block is [Type, Labels, Body], its Body   *)
(* [Attributes, Blocks]: Attributes maps a name to its attribute.  An       *)
(* error is the format fmt.Errorf was given, with its argument and the     *)
(* error it wraps; a decoder returns [panic, err, b].                      *)
(***************************************************************************)
Block(type, labels, attrs, blocks) ==
    [Type |-> type, Labels |-> labels,
     Body |-> [Attributes |-> attrs, Blocks |-> blocks]]

NilError == [format |-> "nil"]

Errorf(format) == [format |-> format]
ErrorfArg(format, arg) == [format |-> format, arg |-> arg]
ErrorfWrap(format, arg, err) == [format |-> format, arg |-> arg, wrapped |-> err]
ErrorfFile(format, file, err) == [format |-> format, file |-> file, wrapped |-> err]

Has(attrs, name) == name \in DOMAIN attrs

\* the string of an attribute that is present, the zero string otherwise
AttrString(file, attrs, name) ==
    IF Has(attrs, name) THEN parseAttributeToString(file, attrs[name]) ELSE <<>>

\* the bool of an attribute that is present, false otherwise
AttrBool(file, attrs, name) ==
    IF Has(attrs, name) THEN parseAttributeToBool(file, attrs[name]) ELSE FALSE

\* error_message is only read once condition was found
VariableValidationParse(file, block) ==
    [err |-> IF ~Has(block.Body.Attributes, "condition")
             THEN Errorf("condition is missing in validation block")
             ELSE IF ~Has(block.Body.Attributes, "error_message")
             THEN Errorf("error_message is missing in validation block")
             ELSE NilError,
     b |-> [Condition |-> AttrString(file, block.Body.Attributes, "condition"),
            ErrorMessage |->
                IF Has(block.Body.Attributes, "condition")
                THEN AttrString(file, block.Body.Attributes, "error_message")
                ELSE <<>>]]

\* the loop of Variable.Parse over the nested blocks: [err, list]
RECURSIVE ParseValidations(_, _, _)
\* the loop that leaves out a validation block that does not decode
AddValidationIfComplete(file, blocks, acc, v) ==
    ParseValidations(file, Tail(blocks),
                     IF v.err # NilError THEN acc ELSE Append(acc, v.b))

\* one validation block, decoded as v
AddValidation(file, blocks, acc, v) ==
    IF v.err # NilError THEN [err |-> v.err, list |-> acc]
    ELSE ParseValidations(file, Tail(blocks), Append(acc, v.b))

\* the loop that refuses a nested block of another type
ParseValidationsStrict(file, blocks, acc) ==
    IF blocks = <<>> THEN [err |-> NilError, list |-> acc]
    ELSE IF Head(blocks).Type = "validation"
    THEN AddValidation(file, blocks, acc, VariableValidationParse(file, Head(blocks)))
    ELSE [err |-> Errorf("unsupported block"), list |-> acc]

ParseValidations(file, blocks, acc) ==
    IF blocks = <<>> THEN [err |-> NilError, list |-> acc]
    ELSE IF Head(blocks).Type = "validation"
    THEN AddValidation(file, blocks, acc, VariableValidationParse(file, Head(blocks)))
    ELSE ParseValidations(file, Tail(blocks), acc)

ZeroVariable ==
    [goType |-> "Variable", Name |-> "", Description |-> <<>>, Type |-> <<>>,
     Default |-> GoNil, Required |-> FALSE, Sensitive |-> FALSE, Validation |-> <<>>]

\* the decoder that takes any default that reads as nil for a missing one
VariableParseRequiredIfNil(file, block) ==
    IF Len(block.Labels) # 1
    THEN [panic |-> FALSE, err |-> Errorf("variable block must have one label"),
          b |-> ZeroVariable]
    ELSE
    LET attrs == block.Body.Attributes
        default == IF Has(attrs, "default")
                   THEN parseAttributeToInterface(file, attrs["default"]) ELSE GoNil
    IN  [panic |-> FALSE, err |-> NilError,
         b |-> [ZeroVariable EXCEPT !.Name = block.Labels[1], !.Default = default,
                                    !.Required = (default = GoNil)]]

\* the end of Variable.Parse: b with the attributes read, vs the validations
VariableWithValidations(b, vs) ==
    [panic |-> FALSE,
     err |-> IF vs.err # NilError
             THEN ErrorfWrap("error parsing validation for variable %s: %w",
                             b.Name, vs.err)
             ELSE NilError,
     b |-> [b EXCEPT !.Validation = vs.list]]

VariableParse(file, block) ==
    IF Len(block.Labels) # 1
    THEN [panic |-> FALSE, err |-> Errorf("variable block must have one label"),
          b |-> ZeroVariable]
    ELSE VariableWithValidations(
             [goType |-> "Variable",
              Name |-> block.Labels[1],
              Description |-> AttrString(file, block.Body.Attributes, "description"),
              Type |-> AttrString(file, block.Body.Attributes, "type"),
              Default |-> IF Has(block.Body.Attributes, "default")
                          THEN parseAttributeToInterface(
                                   file, block.Body.Attributes["default"])
                          ELSE GoNil,
              Required |-> ~Has(block.Body.Attributes, "default"),
              Sensitive |-> AttrBool(file, block.Body.Attributes, "sensitive"),
              Validation |-> <<>>],
             ParseValidations(file, block.Body.Blocks, <<>>))

ZeroOutput ==
    [goType |-> "Output", Name |-> "", Description |-> <<>>, Sensitive |-> FALSE]

\* the decoder that only asks for a first label
OutputParseFirstLabel(file, block) ==
    IF Len(block.Labels) < 1
    THEN [panic |-> FALSE, err |-> Errorf("variable block must have one label"),
          b |-> ZeroOutput]
    ELSE [panic |-> FALSE, err |-> NilError,
          b |-> [ZeroOutput EXCEPT !.Name = block.Labels[1]]]

\* the decoder that asks for the value attribute
OutputParseValueRequired(file, block) ==
    IF Len(block.Labels) # 1
    THEN [panic |-> FALSE, err |-> Errorf("variable block must have one label"),
          b |-> ZeroOutput]
    ELSE IF ~Has(block.Body.Attributes, "value")
    THEN [panic |-> FALSE,
          err |-> ErrorfArg("variable %s is missing Value attribute", block.Labels[1]),
          b |-> [ZeroOutput EXCEPT !.Name = block.Labels[1]]]
    ELSE [panic |-> FALSE, err |-> NilError,
          b |-> [goType |-> "Output",
                 Name |-> block.Labels[1],
                 Description |-> AttrString(file, block.Body.Attributes, "description"),
                 Sensitive |-> AttrBool(file, block.Body.Attributes, "sensitive")]]

OutputParse(file, block) ==
    IF Len(block.Labels) # 1
    THEN [panic |-> FALSE, err |-> Errorf("variable block must have one label"),
          b |-> ZeroOutput]
    ELSE [panic |-> FALSE, err |-> NilError,
          b |-> [goType |-> "Output",
                 Name |-> block.Labels[1],
                 Description |-> AttrString(file, block.Body.Attributes, "description"),
                 Sensitive |-> AttrBool(file, block.Body.Attributes, "sensitive")]]

\* the providers of one required_providers block, added to m: [panic, m].
\* Go ranges over the attribute map in no fixed order; the names of one
\* block are distinct, so the order leaves the result the same.
RECURSIVE ParseProviders(_, _, _, _)
\* one provider, its attribute read as the map providerConfig
\* the loop that leaves a provider alone once it is declared
AddProviderKeepFirst(file, attrs, todo, m, providerName, providerConfig) ==
    IF providerConfig.panic THEN [panic |-> TRUE, m |-> m]
    ELSE ParseProviders(file, attrs, todo \ {providerName},
           IF providerName \in DOMAIN m THEN m
           ELSE MapPut(m, providerName,
                       [Source |-> MapGet(providerConfig.m, <<"s", "o", "u", "r", "c", "e">>),
                        Version |-> MapGet(providerConfig.m,
                                           <<"v", "e", "r", "s", "i", "o", "n">>)]))

AddProvider(file, attrs, todo, m, providerName, providerConfig) ==
    IF providerConfig.panic THEN [panic |-> TRUE, m |-> m]
    ELSE ParseProviders(file, attrs, todo \ {providerName},
           MapPut(m, providerName,
                  [Source |-> MapGet(providerConfig.m, <<"s", "o", "u", "r", "c", "e">>),
                   Version |-> MapGet(providerConfig.m,
                                      <<"v", "e", "r", "s", "i", "o", "n">>)]))

\* the provider the loop takes next
NextProvider(file, attrs, todo, m, providerName) ==
    AddProvider(file, attrs, todo, m, providerName,
                parseAttributeToStringMap(file, attrs[providerName]))

ParseProviders(file, attrs, todo, m) ==
    IF todo = {} THEN [panic |-> FALSE, m |-> m]
    ELSE NextProvider(file, attrs, todo, m, CHOOSE n \in todo : TRUE)

\* the loop of Terraform.Parse over the nested blocks: [panic, m]
RECURSIVE ParseRequiredProviders(_, _, _)
\* the blocks after one required_providers block, r its providers
AfterProviders(file, blocks, r) ==
    IF r.panic THEN r ELSE ParseRequiredProviders(file, Tail(blocks), r.m)

ParseRequiredProviders(file, blocks, m) ==
    IF blocks = <<>> THEN [panic |-> FALSE, m |-> m]
    ELSE IF Head(blocks).Type = "required_providers"
    THEN AfterProviders(file, blocks,
                        ParseProviders(file, Head(blocks).Body.Attributes,
                                       DOMAIN Head(blocks).Body.Attributes, m))
    ELSE ParseRequiredProviders(file, Tail(blocks), m)

ZeroTerraform ==
    [goType |-> "Terraform", RequiredVersion |-> <<>>, Experiments |-> <<>>,
     RequiredProviders |-> EmptyMap, providersNil |-> TRUE]

\* the end of Terraform.Parse: b with the attributes read, ps the providers
TerraformWithProviders(b, ps) ==
    [panic |-> ps.panic, err |-> NilError,
     b |-> [b EXCEPT !.RequiredProviders = ps.m]]

TerraformParse(file, block) ==
    IF Len(block.Labels) # 0
    THEN [panic |-> FALSE, err |-> Errorf("terraform block must not have labels"),
          b |-> ZeroTerraform]
    ELSE TerraformWithProviders(
             [goType |-> "Terraform",
              RequiredVersion |->
                  AttrString(file, block.Body.Attributes, "required_version"),
              Experiments |->
                  IF Has(block.Body.Attributes, "experiments")
                  THEN parseAttributeToStringList(
                           file, block.Body.Attributes["experiments"])
                  ELSE <<>>,
              RequiredProviders |-> EmptyMap,
              providersNil |-> FALSE],
             ParseRequiredProviders(file, block.Body.Blocks, EmptyMap))

(***************************************************************************)
(* The attribute parsers, one call at a time: a file and an attribute are  *)
(* drawn, then one of the parsers is applied to them.                      *)
(***************************************************************************)
SeqsUpTo(S, n) == UNION {[1..k -> S] : k \in 0..n}

\* the texts of string literals: enough letters to spell true in mixed case
StrSet ==
    SeqsUpTo({"t", "r", "u", "e", "T", " "}, MaxStrLen)
    \cup {StrFalse, <<"F", "a", "l", "s", "e">>, <<"y", "e", "s">>, <<"1">>,
          <<"\t", "T", "R", "U", "E", "\n">>}

\* the values of number literals; the parser yields no negative literal
\* (-5 is a UnaryOpExpr)
NumSet ==
    {Num(FALSE, <<0>>, 0), Num(FALSE, <<42>>, 0), Num(FALSE, <<10, 0>>, 0),
     Num(FALSE, MaxInt64Mag, 0), Num(FALSE, MinInt64Mag, 0),
     Num(FALSE, <<100, 0, 0>>, 0),
     Num(FALSE, <<3>>, 1), Num(FALSE, <<0>>, 2), Num(FALSE, <<1234567>>, 3),
     Num(FALSE, Pow2_51, 1), Num(FALSE, Pow2_52, 2), Num(FALSE, MagSucc(Pow2_52), 2)}

\* the source texts that complex expressions are sliced from
SrcSet == SeqsUpTo({"x", "(", " "}, MaxSrcLen)

Ranges(b) == {r \in [Start : 0..Len(b), End : 0..Len(b)] : r.Start <= r.End}

Whole(b) == Rng(0, Len(b))

\* type = list(string)
TypeSrc ==
    <<"t", "y", "p", "e", " ", "=", " ",
      "l", "i", "s", "t", "(", "s", "t", "r", "i", "n", "g", ")", "\n">>
TypeExpr == OtherExpr("FunctionCallExpr", Rng(7, 19))
TypeText == <<"l", "i", "s", "t", "(", "s", "t", "r", "i", "n", "g", ")">>

LitString(s, r) == LiteralValueExpr(CtyString(s), r)
VarX(r) == ScopeTraversalExpr(<<<<"v", "a", "r">>, <<"x">>>>, r)

\* the literals the parser yields as a whole expression: a string literal
\* only ever comes as a part of a template
ScalarExprs(b) ==
    {LiteralValueExpr(CtyNumber(n), Whole(b)) : n \in NumSet}
    \cup {LiteralValueExpr(CtyBool(v), Whole(b)) : v \in BOOLEAN}
    \cup {LiteralValueExpr(CtyNull, Whole(b))}

PlainTemplates(b) == {TemplateExpr(<<LitString(s, Whole(b))>>, Whole(b)) : s \in StrSet}

\* a template of several parts: literal text and interpolations
MixedTemplates(b) ==
    {TemplateExpr(<<LitString(<<"t">>, r), VarX(r)>>, r) : r \in Ranges(b)}
    \cup {TemplateExpr(<<VarX(r), LitString(StrTrue, r)>>, r) : r \in Ranges(b)}
    \cup {TemplateExpr(<<LitString(<<"t">>, r), VarX(r), LitString(<<"e">>, r)>>, r) :
            r \in Ranges(b)}

ItemsSample(r) ==
    <<[KeyExpr |-> ObjectConsKeyExpr(ScopeTraversalExpr(<<<<"x">>>>, r), r),
       ValueExpr |-> TemplateExpr(<<LitString(<<"t">>, r)>>, r)]>>

ComplexExprs(b) ==
    {OtherExpr(k, r) : k \in OtherKinds, r \in Ranges(b)}
    \cup {VarX(r) : r \in Ranges(b)}
    \cup {TupleConsExpr(<<>>, r) : r \in Ranges(b)}
    \cup {TupleConsExpr(<<LitString(<<"t">>, r), VarX(r)>>, r) : r \in Ranges(b)}
    \cup {ObjectConsExpr(<<>>, r) : r \in Ranges(b)}
    \cup {ObjectConsExpr(ItemsSample(r), r) : r \in Ranges(b)}
    \cup MixedTemplates(b)

\* sensitive = TRUE: the bare identifier TRUE is a traversal
TrueSrc == <<"T", "R", "U", "E">>
TrueExprs == {ScopeTraversalExpr(<<TrueSrc>>, Whole(TrueSrc))}

\* { x = x }: the keys and the values of the items of an object
ObjSrc == <<"{", " ", "x", " ", "=", " ", "x", " ", "}">>
KeyRng == Rng(2, 3)
ValueRng == Rng(6, 7)

\* the keys an item may have: an identifier, a traversal of two steps, a
\* quoted string, a literal string, a number, a bool, null, and a key in
\* parentheses
ObjectKeys ==
    {ObjectConsKeyExpr(ScopeTraversalExpr(t, KeyRng), KeyRng) :
        t \in {<<<<"s">>>>, <<<<"v">>>>, <<<<"s">>, <<"b">>>>}}
    \cup {ObjectConsKeyExpr(TemplateExpr(<<LitString(<<"s">>, KeyRng)>>, KeyRng), KeyRng),
          ObjectConsKeyExpr(LitString(<<"s">>, KeyRng), KeyRng),
          ObjectConsKeyExpr(LiteralValueExpr(CtyNumber(Num(FALSE, <<1>>, 0)), KeyRng), KeyRng),
          ObjectConsKeyExpr(LiteralValueExpr(CtyBool(TRUE), KeyRng), KeyRng),
          ObjectConsKeyExpr(LiteralValueExpr(CtyNull, KeyRng), KeyRng),
          ObjectConsKeyExpr(OtherExpr("ParenthesesExpr", KeyRng), KeyRng)}

ObjectValues ==
    {TemplateExpr(<<LitString(<<"t">>, ValueRng)>>, ValueRng),
     LiteralValueExpr(CtyNumber(Num(FALSE, <<42>>, 0)), ValueRng),
     ScopeTraversalExpr(<<<<"x">>>>, ValueRng)}

ObjectItems == [KeyExpr : ObjectKeys, ValueExpr : ObjectValues]

ObjExprs == {ObjectConsExpr(items, Whole(ObjSrc)) : items \in SeqsUpTo(ObjectItems, MaxItems)}

\* [ x, x, x, x ]: the elements of a tuple, the i-th in the i-th slot
TupleSrc == <<"[", "x", ",", "x", ",", "x", ",", "x", "]">>
SlotRng(i) == Rng(2 * i - 1, 2 * i)

\* the elements a tuple may have: an identifier, a quoted string, the
\* empty quoted string, a number, a bool and null
TupleElems(i) ==
    {ScopeTraversalExpr(<<<<"x">>>>, SlotRng(i)),
     TemplateExpr(<<LitString(<<"t">>, SlotRng(i))>>, SlotRng(i)),
     TemplateExpr(<<LitString(<<>>, SlotRng(i))>>, SlotRng(i)),
     LiteralValueExpr(CtyNumber(Num(FALSE, <<42>>, 0)), SlotRng(i)),
     LiteralValueExpr(CtyBool(FALSE), SlotRng(i)),
     LiteralValueExpr(CtyNull, SlotRng(i))}

TupleExprs ==
    {TupleConsExpr(es, Whole(TupleSrc)) :
        es \in {f \in SeqsUpTo(UNION {TupleElems(i) : i \in 1..MaxItems}, MaxItems) :
                   \A i \in DOMAIN f : f[i] \in TupleElems(i)}}

\* expressions that are no tuple, each with its source: x[y], a for
\* expression, a call with two arguments, "t,e" and ""
IndexSrc == <<"x", "[", "y", "]">>
ForSrc == <<"[", "f", "o", "r", " ", "s", " ", "i", "n", " ", "x", ":", "s", "]">>
CallSrc == <<"f", "(", "x", ",", " ", "\"", "t", "\"", ")">>
CommaSrc == <<"\"", "t", ",", "e", "\"">>
EmptySrc == <<"\"", "\"">>

ListSamples ==
    {[src |-> IndexSrc, expr |-> OtherExpr("IndexExpr", Whole(IndexSrc))],
     [src |-> ForSrc, expr |-> OtherExpr("ForExpr", Whole(ForSrc))],
     [src |-> CallSrc, expr |-> OtherExpr("FunctionCallExpr", Whole(CallSrc))],
     [src |-> CommaSrc,
      expr |-> TemplateExpr(<<LitString(<<"t", ",", "e">>, Rng(1, 4))>>, Whole(CommaSrc))],
     [src |-> EmptySrc,
      expr |-> TemplateExpr(<<LitString(<<>>, Rng(1, 1))>>, Whole(EmptySrc))]}

\* the sources that come with expressions of their own
SampleSrcs == {TypeSrc, TrueSrc, ObjSrc, TupleSrc} \cup {s.src : s \in ListSamples}

\* literals and plain templates come with the sample source, complex
\* expressions with every source and every range of it
exExprs(b) ==
    CASE b = TypeSrc -> ScalarExprs(b) \cup PlainTemplates(b) \cup {TypeExpr}
      [] b = TrueSrc -> TrueExprs
      [] b = ObjSrc -> ObjExprs
      [] b = TupleSrc -> TupleExprs
      [] b \in {s.src : s \in ListSamples} -> {s.expr : s \in {t \in ListSamples : t.src = b}}
      [] OTHER -> ComplexExprs(b)

CallToInterface ==
    /\ exRet.call = "none"
    /\ exRet' = [call |-> "Interface", value |-> parseAttributeToInterface(exFile, exAttr)]
    /\ UNCHANGED <<exFile, exAttr, dcVars, wsVars, gitVars>>

CallToString ==
    /\ exRet.call = "none"
    /\ exRet' = [call |-> "String", str |-> parseAttributeToString(exFile, exAttr)]
    /\ UNCHANGED <<exFile, exAttr, dcVars, wsVars, gitVars>>

CallToBool ==
    /\ exRet.call = "none"
    /\ exRet' = [call |-> "Bool", bool |-> parseAttributeToBool(exFile, exAttr)]
    /\ UNCHANGED <<exFile, exAttr, dcVars, wsVars, gitVars>>

CallToStringList ==
    /\ exRet.call = "none"
    /\ exRet' = [call |-> "StringList", list |-> parseAttributeToStringList(exFile, exAttr)]
    /\ UNCHANGED <<exFile, exAttr, dcVars, wsVars, gitVars>>

CallToStringMap ==
    /\ exRet.call = "none"
    /\ exRet' = [call |-> "StringMap", map |-> parseAttributeToStringMap(exFile, exAttr)]
    /\ UNCHANGED <<exFile, exAttr, dcVars, wsVars, gitVars>>

exNext ==
    \/ CallToInterface
    \/ CallToString
    \/ CallToBool
    \/ CallToStringList
    \/ CallToStringMap


(***************************************************************************)
(* Claims about the attribute parsers (SpecExpr).                          *)
(***************************************************************************)
IsScalarLiteral(e) ==
    e.kind = "LiteralValueExpr" /\ (e.Val.ty \in {"string", "number", "bool"} \/ e.Val.null)

\* what the claims call the matching variant carrying the same value
SameScalar(v, val) ==
    CASE val.ty = "string" -> v = GoString(val.str)
      [] val.ty = "number" /\ val.num.frac = 0 ->
            v.tag = "int64" /\ v.neg = val.num.neg /\ v.mag = val.num.mag
      [] val.ty = "number" /\ val.num.frac # 0 ->
            /\ v.tag = "float64"
            /\ MagLess(val.num.mag, Pow2_51) =>
                  (v.neg = val.num.neg /\ v.mag = val.num.mag /\ v.frac = val.num.frac)
      [] val.ty = "bool" -> v = GoBool(val.b)
      [] OTHER -> v = GoNil

\* C1: normalize maps every literal scalar to the matching variant with the
\* same value (string, Float for a fractional number, Integer for a whole
\* number, Bool, Null), and a template of one literal string part to the
\* String of that part, as normalizing that literal directly does.
C1_LiteralScalars ==
    exRet.call = "Interface" =>
        LET e == exAttr.Expr
        IN  /\ IsScalarLiteral(e) => SameScalar(exRet.value, e.Val)
            /\ IsPlainTemplate(e) =>
                  /\ exRet.value = GoString(e.Parts[1].Val.str)
                  /\ exRet.value = ExprToInterface(exFile, e.Parts[1])

\* the text t is the bytes of range r of b without the white space at its ends
IsTrimmedSlice(t, b, r) ==
    /\ t = <<>> \/ (~IsSpace(t[1]) /\ ~IsSpace(t[Len(t)]))
    /\ \E i \in r.Start..r.End :
          /\ i + Len(t) <= r.End
          /\ \A k \in 1..Len(t) : t[k] = b[i + k]
          /\ \A k \in (r.Start + 1)..i : IsSpace(b[k])
          /\ \A k \in (i + Len(t) + 1)..r.End : IsSpace(b[k])

\* C2: for an expression that is neither a literal scalar nor a template of
\* one literal string part, normalize returns the source text of the
\* expression's range without the white space at its ends; normalizing that
\* text again gives the same text, and type = list(string) gives list(string).
C2_RawSourceFallback ==
    (exRet.call = "Interface" /\ ~IsScalarLiteral(exAttr.Expr)
        /\ ~IsPlainTemplate(exAttr.Expr)) =>
        LET e == exAttr.Expr
            t == exRet.value.str
        IN  /\ exRet.value.tag = "string"
            /\ IsTrimmedSlice(t, exFile.Bytes, e.SrcRange)
            /\ ExprToInterface([Bytes |-> t], [e EXCEPT !.SrcRange = Whole(t)])
                  = exRet.value
            /\ (exFile.Bytes = TypeSrc /\ e = TypeExpr) => t = TypeText

\* a complex expression whose range starts and ends with white space has
\* been normalized to the text in between
C2_Witness ==
    /\ exRet.call = "Interface"
    /\ exAttr.Expr.kind = "FunctionCallExpr"
    /\ exRet.value.str # <<>>
    /\ Len(exRet.value.str) + 2 = exAttr.Expr.SrcRange.End - exAttr.Expr.SrcRange.Start

\* C3: a number literal with zero fractional part, whatever its magnitude,
\* normalizes to an Integer whose value is the literal's value exactly.
C3_IntegerExact ==
    (exRet.call = "Interface" /\ exAttr.Expr.kind = "LiteralValueExpr"
        /\ exAttr.Expr.Val.ty = "number" /\ exAttr.Expr.Val.num.frac = 0) =>
        /\ exRet.value.tag = "int64"
        /\ exRet.value.neg = exAttr.Expr.Val.num.neg
        /\ exRet.value.mag = exAttr.Expr.Val.num.mag

\* the String an expression normalizes to, if it is one
IsStringExpr(e) == IsPlainTemplate(e) \/ (e.kind = "LiteralValueExpr" /\ e.Val.ty = "string")
StringOf(e) == IF IsPlainTemplate(e) THEN e.Parts[1].Val.str ELSE e.Val.str

IsTrueWord(w) ==
    /\ Len(w) = 4
    /\ w[1] \in {"t", "T"}
    /\ w[2] \in {"r", "R"}
    /\ w[3] \in {"u", "U"}
    /\ w[4] \in {"e", "E"}

\* C10, as claimed: asBool returns a Bool as it is, and for a String s it
\* returns true exactly when s is "true" in any letter case, so false for a
\* string that has white space around "true".
C10_AsBoolExactWord ==
    exRet.call = "Bool" =>
        LET e == exAttr.Expr
        IN  /\ exRet.bool \in BOOLEAN
            /\ (e.kind = "LiteralValueExpr" /\ e.Val.ty = "bool") => exRet.bool = e.Val.b
            /\ IsStringExpr(e) => (exRet.bool <=> IsTrueWord(StringOf(e)))

\* s is "true" in any letter case with any white space before and after it
IsPaddedTrueWord(s) ==
    \E i \in 0..Len(s) :
        /\ i + 4 <= Len(s)
        /\ IsTrueWord(SubSeq(s, i + 1, i + 4))
        /\ \A k \in 1..i : IsSpace(s[k])
        /\ \A k \in (i + 5)..Len(s) : IsSpace(s[k])

\* C10, amended: asBool never fails, returns a Bool as it is, and for a
\* String s returns true exactly when s without the white space at its ends
\* is "true" in any letter case.
C10_AsBoolTrimmedWord ==
    exRet.call = "Bool" =>
        LET e == exAttr.Expr
        IN  /\ exRet.bool \in BOOLEAN
            /\ (e.kind = "LiteralValueExpr" /\ e.Val.ty = "bool") => exRet.bool = e.Val.b
            /\ IsStringExpr(e) => (exRet.bool <=> IsPaddedTrueWord(StringOf(e)))

\* asBool has returned true for a quoted string with white space around true
C10_Witness ==
    /\ exRet.call = "Bool"
    /\ IsPlainTemplate(exAttr.Expr)
    /\ StringOf(exAttr.Expr) # TrimSpace(StringOf(exAttr.Expr))
    /\ exRet.bool

\* C11: asBool returns false for every expression that normalizes to
\* neither a Bool nor a String: an Integer, a Float, Null, and raw text
\* whatever the text is, so that sensitive = TRUE gives false.
C11_AsBoolFalseOtherwise ==
    (exRet.call = "Bool" /\ ~IsStringExpr(exAttr.Expr)
        /\ ~(exAttr.Expr.kind = "LiteralValueExpr" /\ exAttr.Expr.Val.ty = "bool")) =>
        exRet.bool = FALSE

\* the key text the claims give an item: the string of a wrapped literal
\* string, the root identifier of a wrapped traversal, none for any other key
ClaimedKey(item) ==
    IF item.KeyExpr.kind # "ObjectConsKeyExpr" THEN <<>>
    ELSE IF item.KeyExpr.Wrapped.kind = "LiteralValueExpr"
            /\ item.KeyExpr.Wrapped.Val.ty = "string"
    THEN item.KeyExpr.Wrapped.Val.str
    ELSE IF item.KeyExpr.Wrapped.kind = "ScopeTraversalExpr"
    THEN Head(item.KeyExpr.Wrapped.Traversal)
    ELSE <<>>

\* the map the claims give the items: under each key that is not empty the
\* string of the value of the last item with that key
ClaimedMap(file, items) ==
    [k \in {ClaimedKey(items[i]) : i \in DOMAIN items} \ {<<>>} |->
        LET last == CHOOSE i \in DOMAIN items :
                       /\ ClaimedKey(items[i]) = k
                       /\ \A j \in DOMAIN items : ClaimedKey(items[j]) = k => j <= i
        IN  ExprToString(file, items[last].ValueExpr)]

\* C12: for an object asStringMap returns the map that holds key ->
\* asString(value) for each entry whose key is not empty, the key of a
\* literal string being that string and the key of a traversal its root; an
\* entry with any other key is skipped, the later of two entries of one key
\* wins, and for any other expression the map is empty.
C12_StringMapEntries ==
    exRet.call = "StringMap" =>
        /\ ~exRet.map.panic
        /\ exRet.map.m = IF exAttr.Expr.kind = "ObjectConsExpr"
                         THEN ClaimedMap(exFile, exAttr.Expr.Items)
                         ELSE EmptyMap

\* C13: asStringMap never fails: no panic arises from any shape of key, a
\* number, bool or null literal included.
C13_StringMapNeverFails ==
    exRet.call = "StringMap" => ~exRet.map.panic

\* C16: on a list construction asStringList returns a list as long as the
\* element list whose i-th entry is asString of the i-th element, the
\* elements that give the empty string included.
C16_TupleElementwise ==
    (exRet.call = "StringList" /\ exAttr.Expr.kind = "TupleConsExpr") =>
        /\ Len(exRet.list) = Len(exAttr.Expr.Exprs)
        /\ \A i \in DOMAIN exAttr.Expr.Exprs :
              exRet.list[i] =
                  parseAttributeToString(exFile, Attribute("", exAttr.Expr.Exprs[i]))

\* a tuple whose first element is the empty quoted string and whose
\* second is an identifier has been turned into the list of "" and x
C16_Witness ==
    /\ exRet.call = "StringList"
    /\ exAttr.Expr.kind = "TupleConsExpr"
    /\ Len(exAttr.Expr.Exprs) = 2
    /\ exAttr.Expr.Exprs[2].kind = "ScopeTraversalExpr"
    /\ exRet.list = <<<<>>, <<"x">>>>

\* the text without the brackets that surround it: an opening bracket at
\* the start together with a closing bracket at the end
StripSurroundingBrackets(raw) ==
    IF Len(raw) >= 2 /\ raw[1] = "[" /\ raw[Len(raw)] = "]"
    THEN SubSeq(raw, 2, Len(raw) - 1)
    ELSE raw

\* the pieces between the commas, each without the white space and the
\* double quotes around it
ClaimedPieces(raw) ==
    LET parts == SplitComma(StripSurroundingBrackets(raw), <<>>)
    IN  [i \in DOMAIN parts |-> Trim(TrimSpace(parts[i]), {"\""})]

NonEmptyPieces(pieces) == SelectSeq(pieces, LAMBDA piece : piece # <<>>)

\* C17: on an expression that is no list construction asStringList takes
\* the trimmed source text, strips the brackets that surround it, splits
\* the rest on commas and returns the pieces in order, each trimmed of
\* white space and of the double quotes around it.  The pieces that are
\* empty after the trimming are set aside on both sides: the formula asks
\* no more of the code than the claim does.
C17_SplitHeuristic ==
    (exRet.call = "StringList" /\ exAttr.Expr.kind # "TupleConsExpr") =>
        NonEmptyPieces(exRet.list) =
            NonEmptyPieces(ClaimedPieces(RawSource(exFile, exAttr.Expr)))

Digits == {"0", "1", "2", "3", "4", "5", "6", "7", "8", "9"}

DigitValue(c) == CHOOSE n \in 0..9 : DigitChar(n) = c

\* the number that up to nine digits spell
RECURSIVE DecimalValue(_)
DecimalValue(digits) ==
    IF digits = <<>> THEN 0
    ELSE DecimalValue(SubSeq(digits, 1, Len(digits) - 1)) * 10
            + DigitValue(digits[Len(digits)])

\* the magnitude that a string of digits spells, nine digits to a limb
RECURSIVE DecimalMag(_)
DecimalMag(digits) ==
    IF Len(digits) <= 9 THEN <<DecimalValue(digits)>>
    ELSE Append(DecimalMag(SubSeq(digits, 1, Len(digits) - 9)),
                DecimalValue(SubSeq(digits, Len(digits) - 8, Len(digits))))

\* str is the decimal numeral of the int64 v: a minus sign if v is
\* negative, then digits without a leading zero that spell its magnitude
IsDecimalOf(str, v) ==
    LET digits == IF v.neg THEN Tail(str) ELSE str
    IN  /\ str # <<>>
        /\ v.neg => Head(str) = "-"
        /\ digits # <<>>
        /\ \A i \in DOMAIN digits : digits[i] \in Digits
        /\ Len(digits) > 1 => digits[1] # "0"
        /\ DecimalMag(digits) = v.mag

\* C18: asString returns a String result unchanged, "true" or "false" for
\* a Bool, the decimal digits of an Integer, "null" for Null, and the raw
\* text itself for a RawText result.
C18_AsStringScalars ==
    exRet.call = "String" =>
        LET value == parseAttributeToInterface(exFile, exAttr)
        IN  /\ value.tag = "string" => exRet.str = value.str
            /\ value.tag = "bool" =>
                  exRet.str = (IF value.b THEN <<"t", "r", "u", "e">>
                               ELSE <<"f", "a", "l", "s", "e">>)
            /\ value.tag = "int64" => IsDecimalOf(exRet.str, value)
            /\ value.tag = "nil" => exRet.str = <<"n", "u", "l", "l">>
            /\ (~IsScalarLiteral(exAttr.Expr) /\ ~IsPlainTemplate(exAttr.Expr)) =>
                  exRet.str = RawSource(exFile, exAttr.Expr)

\* the literal 10000000000, an Integer of two limbs, has been turned into
\* its eleven digits
C18_Witness ==
    /\ exRet.call = "String"
    /\ exAttr.Expr.kind = "LiteralValueExpr"
    /\ exAttr.Expr.Val.ty = "number"
    /\ exAttr.Expr.Val.num = Num(FALSE, <<10, 0>>, 0)
    /\ exRet.str = <<"1", "0", "0", "0", "0", "0", "0", "0", "0", "0", "0">>

RECURSIVE SelectType(_, _)
SelectType(blocks, goType) ==
    IF blocks = <<>> THEN <<>>
    ELSE (IF Head(blocks).goType = goType THEN <<Head(blocks)>> ELSE <<>>)
         \o SelectType(Tail(blocks), goType)

generateTerraformConfig(blocks) ==
    [nil |-> FALSE,
     Variables |-> SelectType(blocks, "Variable"),
     Outputs |-> SelectType(blocks, "Output"),
     Terraform |-> SelectType(blocks, "Terraform")]

(***************************************************************************)
(* TerraformConfig.Summary: encoding/json on the records.  A JSON object   *)
(* is the map of the keys it emits; a field tagged omitempty is left out   *)
(* when it is false, an empty string, a nil interface or an empty slice or *)
(* map.                                                                    *)
(***************************************************************************)
OmitEmptyString(m, k, s) == IF s = <<>> THEN m ELSE MapPut(m, k, s)

OmitFalse(m, k, b) == IF ~b THEN m ELSE MapPut(m, k, b)

\* a slice or a map of length zero, nil or not
OmitEmptyContainer(m, k, c) == IF DOMAIN c = {} THEN m ELSE MapPut(m, k, c)

OmitEmptyInterface(m, k, v) ==
    IF v.tag = "nil" \/ v = GoString(<<>>) THEN m ELSE MapPut(m, k, v)

\* an interface field is empty only when it is nil
OmitNilInterface(m, k, v) == IF v.tag = "nil" THEN m ELSE MapPut(m, k, v)

MarshalValidation(v) ==
    MapPut(MapPut(EmptyMap, "condition", v.Condition), "error_message", v.ErrorMessage)

MarshalVariable(b) ==
    OmitEmptyContainer(
        MapPut(
            MapPut(
                OmitNilInterface(
                    OmitEmptyString(
                        OmitEmptyString(MapPut(EmptyMap, "name", b.Name),
                                        "description", b.Description),
                        "type", b.Type),
                    "default", b.Default),
                "required", b.Required),
            "sensitive", b.Sensitive),
        "validation",
        [i \in DOMAIN b.Validation |-> MarshalValidation(b.Validation[i])])

MarshalOutput(b) ==
    OmitFalse(OmitEmptyString(MapPut(EmptyMap, "name", b.Name),
                              "description", b.Description),
              "sensitive", b.Sensitive)

MarshalProvider(p) ==
    OmitEmptyString(OmitEmptyString(EmptyMap, "source", p.Source), "version", p.Version)

MarshalTerraform(b) ==
    OmitEmptyContainer(
        OmitEmptyContainer(
            OmitEmptyString(EmptyMap, "required_version", b.RequiredVersion),
            "experiments", b.Experiments),
        "required_providers",
        [n \in DOMAIN b.RequiredProviders |-> MarshalProvider(b.RequiredProviders[n])])

\* Summary: the object of the configuration
Summary(t) ==
    OmitEmptyContainer(
        OmitEmptyContainer(
            OmitEmptyContainer(
                EmptyMap, "variables",
                [i \in DOMAIN t.Variables |-> MarshalVariable(t.Variables[i])]),
            "outputs", [i \in DOMAIN t.Outputs |-> MarshalOutput(t.Outputs[i])]),
        "terraform", [i \in DOMAIN t.Terraform |-> MarshalTerraform(t.Terraform[i])])

\* a key written as a quoted string: the key expression wraps a template of
\* one literal string
IsQuotedKey(keyExpr) ==
    /\ keyExpr.kind = "ObjectConsKeyExpr"
    /\ keyExpr.Wrapped.kind = "TemplateExpr"
    /\ Len(keyExpr.Wrapped.Parts) = 1
    /\ keyExpr.Wrapped.Parts[1].kind = "LiteralValueExpr"
    /\ keyExpr.Wrapped.Parts[1].Val.ty = "string"

\* the same key written as a bare identifier
BareKey(keyExpr) ==
    IF IsQuotedKey(keyExpr)
    THEN ObjectConsKeyExpr(
             ScopeTraversalExpr(<<keyExpr.Wrapped.Parts[1].Val.str>>, keyExpr.SrcRange),
             keyExpr.SrcRange)
    ELSE keyExpr

\* the object with every quoted key written bare
WithBareKeys(e) ==
    [e EXCEPT !.Items = [i \in DOMAIN e.Items |->
                            [e.Items[i] EXCEPT !.KeyExpr = BareKey(e.Items[i].KeyExpr)]]]

\* C28: asStringMap gives the same map for an object whose keys are written
\* as quoted strings as for the object with the same keys written as bare
\* identifiers
C28_QuotedKeyAsBare ==
    (/\ exRet.call = "StringMap"
     /\ exAttr.Expr.kind = "ObjectConsExpr"
     /\ ~exRet.map.panic) =>
        exRet.map.m =
            parseAttributeToStringMap(exFile,
                                      Attribute("attr", WithBareKeys(exAttr.Expr))).m


(***************************************************************************)
(* The decoders, one block at a time: a block is drawn and handed to the   *)
(* decoder of its keyword, as parseBlocks does.                            *)
(***************************************************************************)
\* type = list(string)
\* default = var.x
BlockSrc ==
    TypeSrc \o <<"d", "e", "f", "a", "u", "l", "t", " ", "=", " ",
                 "v", "a", "r", ".", "x", "\n">>
DefaultVarX == VarX(Rng(30, 35))

Absent == [kind |-> "absent"]

Quoted(s) == TemplateExpr(<<LitString(s, Rng(0, 0))>>, Rng(0, 0))
NumberLit(n) == LiteralValueExpr(CtyNumber(n), Rng(0, 0))
BoolLit(v) == LiteralValueExpr(CtyBool(v), Rng(0, 0))
NullLit == LiteralValueExpr(CtyNull, Rng(0, 0))

\* the attribute map of a body: the names whose expression is given
Attrs(given) ==
    [n \in {m \in DOMAIN given : given[m] # Absent} |-> Attribute(n, given[n])]

NoAttrs == Attrs([n \in {} |-> Absent])

DefaultChoices ==
    {Absent, NullLit, Quoted(<<"t">>), Quoted(<<>>), NumberLit(Num(FALSE, <<42>>, 0)),
     NumberLit(Num(FALSE, <<3>>, 1)), BoolLit(FALSE), DefaultVarX}

ValidationOk ==
    Block("validation", <<>>,
          Attrs([condition |-> DefaultVarX, error_message |-> Quoted(<<"e">>)]), <<>>)
ValidationOther ==
    Block("validation", <<>>,
          Attrs([condition |-> BoolLit(TRUE), error_message |-> Quoted(<<"t">>)]), <<>>)
ValidationNoMessage ==
    Block("validation", <<>>, Attrs([condition |-> DefaultVarX]), <<>>)
ValidationNoCondition ==
    Block("validation", <<>>, Attrs([error_message |-> Quoted(<<"e">>)]), <<>>)
Lifecycle == Block("lifecycle", <<>>, NoAttrs, <<>>)
RequiredProvidersX ==
    Block("required_providers", <<>>,
          Attrs([x |-> ObjectConsExpr(ItemsSample(Rng(0, 0)), Rng(0, 0))]), <<>>)

\* an item key = "text" of an object, the key an identifier
KeyValue(key, text) ==
    [KeyExpr |-> ObjectConsKeyExpr(ScopeTraversalExpr(<<key>>, Rng(0, 0)), Rng(0, 0)),
     ValueExpr |-> Quoted(text)]
SourceKey == <<"s", "o", "u", "r", "c", "e">>
VersionKey == <<"v", "e", "r", "s", "i", "o", "n">>

\* aws = { source = "t", version = "e" }, x = "t", y = { version = "e" }
RequiredProvidersFull ==
    Block("required_providers", <<>>,
          Attrs([aws |-> ObjectConsExpr(<<KeyValue(SourceKey, <<"t">>),
                                          KeyValue(VersionKey, <<"e">>)>>, Rng(0, 0)),
                 x |-> Quoted(<<"t">>),
                 y |-> ObjectConsExpr(<<KeyValue(VersionKey, <<"e">>)>>, Rng(0, 0))]),
          <<>>)

\* aws = { source = "e" }
RequiredProvidersAws ==
    Block("required_providers", <<>>,
          Attrs([aws |-> ObjectConsExpr(<<KeyValue(SourceKey, <<"e">>)>>, Rng(0, 0))]),
          <<>>)

\* aws = { 1 = "t" }
RequiredProvidersNumberKey ==
    Block("required_providers", <<>>,
          Attrs([aws |-> ObjectConsExpr(
                    <<[KeyExpr |-> ObjectConsKeyExpr(NumberLit(Num(FALSE, <<1>>, 0)),
                                                     Rng(0, 0)),
                       ValueExpr |-> Quoted(<<"t">>)]>>, Rng(0, 0))]),
          <<>>)

NestedChoices ==
    {<<>>, <<ValidationOk>>, <<ValidationOk, ValidationNoMessage>>,
     <<ValidationNoCondition>>, <<Lifecycle>>, <<RequiredProvidersX>>,
     <<RequiredProvidersFull>>, <<RequiredProvidersFull, Lifecycle, RequiredProvidersX>>,
     <<RequiredProvidersNumberKey>>,
     <<RequiredProvidersFull, Lifecycle, RequiredProvidersAws>>,
     <<RequiredProvidersAws, RequiredProvidersFull>>,
     <<ValidationOther, Lifecycle, ValidationOk>>,
     <<ValidationOk, ValidationOther, ValidationNoCondition>>}

SensitiveChoices == {Absent, BoolLit(TRUE), Quoted(<<" ", "T", "r", "u", "e">>)}

\* the value of an output: none, a literal, an expression
ValueChoices == {Absent, Quoted(<<"t">>), DefaultVarX}

\* experiments = [], experiments = ["t", "e"]
ExperimentsChoices ==
    {Absent, TupleConsExpr(<<>>, Rng(0, 0)),
     TupleConsExpr(<<Quoted(<<"t">>), Quoted(<<"e">>)>>, Rng(0, 0))}

\* the blocks of each keyword, with the attributes their decoder reads,
\* the attribute nullable (of a variable in Terraform, read by no decoder)
\* and, on an output, value
dcBlocks ==
    {Block("variable", labels,
           Attrs([default |-> d, sensitive |-> s, description |-> ds, type |-> t,
                  nullable |-> n]),
           nested) :
        labels \in SeqsUpTo({"x", "y"}, MaxLabels),
        d \in DefaultChoices,
        s \in SensitiveChoices,
        ds \in {Absent, Quoted(<<"t">>)},
        t \in {Absent, TypeExpr},
        n \in {Absent, BoolLit(FALSE)},
        nested \in NestedChoices}
    \cup
    {Block("output", labels,
           Attrs([value |-> v, sensitive |-> s, description |-> ds, nullable |-> n]),
           nested) :
        labels \in SeqsUpTo({"x", "y"}, MaxLabels),
        v \in ValueChoices,
        s \in SensitiveChoices,
        ds \in {Absent, Quoted(<<"t">>)},
        n \in {Absent, BoolLit(FALSE)},
        nested \in NestedChoices}
    \cup
    {Block("terraform", labels,
           Attrs([required_version |-> rv, experiments |-> ex, nullable |-> n]),
           nested) :
        labels \in SeqsUpTo({"x", "y"}, MaxLabels),
        rv \in {Absent, Quoted(<<"1">>)},
        ex \in ExperimentsChoices,
        n \in {Absent, BoolLit(FALSE)},
        nested \in NestedChoices}

Decoded(r) == [done |-> TRUE, panic |-> r.panic, err |-> r.err, b |-> r.b]

DecodeVariable ==
    /\ ~dcRet.done
    /\ dcBlock.Type = "variable"
    /\ dcRet' = Decoded(VariableParse(dcFile, dcBlock))
    /\ UNCHANGED <<dcFile, dcBlock, dcSum, exVars, wsVars, gitVars>>

DecodeOutput ==
    /\ ~dcRet.done
    /\ dcBlock.Type = "output"
    /\ dcRet' = Decoded(OutputParse(dcFile, dcBlock))
    /\ UNCHANGED <<dcFile, dcBlock, dcSum, exVars, wsVars, gitVars>>

DecodeTerraform ==
    /\ ~dcRet.done
    /\ dcBlock.Type = "terraform"
    /\ dcRet' = Decoded(TerraformParse(dcFile, dcBlock))
    /\ UNCHANGED <<dcFile, dcBlock, dcSum, exVars, wsVars, gitVars>>

\* the configuration of the one record is summarised, as the commands do
\* with what ParseTerraformWorkspace returns
Summarize ==
    /\ dcRet.done
    /\ ~dcRet.panic
    /\ dcRet.err = NilError
    /\ "none" \in DOMAIN dcSum
    /\ dcSum' = Summary(generateTerraformConfig(<<dcRet.b>>))
    /\ UNCHANGED <<dcFile, dcBlock, dcRet, exVars, wsVars, gitVars>>

dcNext == DecodeVariable \/ DecodeOutput \/ DecodeTerraform \/ Summarize


(***************************************************************************)
(* Claims about the decoders (SpecBlock).                                  *)
(***************************************************************************)
\* C4: a decoded Variable is required exactly when its block has no default
\* attribute; default = null gives required false and default Null, and any
\* other default gives required false and the normalized default.
C4_RequiredIffNoDefault ==
    (dcRet.done /\ dcBlock.Type = "variable" /\ dcRet.err = NilError) =>
        LET attrs == dcBlock.Body.Attributes
        IN  /\ dcRet.b.Required <=> "default" \notin DOMAIN attrs
            /\ "default" \in DOMAIN attrs =>
                  /\ ~dcRet.b.Required
                  /\ dcRet.b.Default = ExprToInterface(dcFile, attrs["default"].Expr)
                  /\ attrs["default"].Expr = NullLit => dcRet.b.Default = GoNil

\* a variable with default = null has been decoded as not required
C4_Witness ==
    /\ dcRet.done
    /\ dcBlock.Type = "variable"
    /\ dcRet.err = NilError
    /\ "default" \in DOMAIN dcBlock.Body.Attributes
    /\ dcBlock.Body.Attributes["default"].Expr = NullLit
    /\ ~dcRet.b.Required

LabelError(r) == r.err.format \in {"variable block must have one label",
                                   "terraform block must not have labels"}

\* C6: a variable or output block decodes only with exactly one label, which
\* becomes the name, and fails with none or with two or more; a terraform
\* block decodes only with no label and fails with one or more.
C6_LabelArity ==
    dcRet.done =>
        LET n == Len(dcBlock.Labels)
            ok == dcRet.err = NilError /\ ~dcRet.panic
        IN  /\ dcBlock.Type \in {"variable", "output"} =>
                  /\ ok => (n = 1 /\ dcRet.b.Name = dcBlock.Labels[1])
                  /\ n # 1 => (~ok /\ LabelError(dcRet))
                  /\ n = 1 => ~LabelError(dcRet)
                  /\ (n = 1 /\ dcBlock.Type = "output") => ok
            /\ dcBlock.Type = "terraform" =>
                  /\ ok => n = 0
                  /\ n # 0 => (~ok /\ LabelError(dcRet))
                  /\ n = 0 => ~LabelError(dcRet)

\* an output block with two labels has been refused
C6_Witness ==
    /\ dcRet.done
    /\ dcBlock.Type = "output"
    /\ Len(dcBlock.Labels) = 2
    /\ LabelError(dcRet)

\* the required_providers blocks among the nested blocks of a block
ProviderBlocks(block) ==
    SelectSeq(block.Body.Blocks, LAMBDA b : b.Type = "required_providers")

\* what the claims give a provider attribute: the values of the source and
\* version keys of its map, empty when absent or when it is not an object
ClaimedProvider(file, attr) ==
    LET m == IF attr.Expr.kind = "ObjectConsExpr"
             THEN ClaimedMap(file, attr.Expr.Items) ELSE EmptyMap
    IN  [Source |-> IF SourceKey \in DOMAIN m THEN m[SourceKey] ELSE <<>>,
         Version |-> IF VersionKey \in DOMAIN m THEN m[VersionKey] ELSE <<>>]

\* C14: a terraform block always decodes to a provider map that is not
\* nil, empty without a required_providers block, with exactly one entry
\* for every attribute of a required_providers block, under its name, that
\* holds the source and the version of the attribute's map, each empty when
\* the key is absent or the expression no object; never an error.
C14_ProviderMap ==
    (dcRet.done /\ dcBlock.Type = "terraform" /\ Len(dcBlock.Labels) = 0) =>
        LET ps == ProviderBlocks(dcBlock)
            names == UNION {DOMAIN ps[i].Body.Attributes : i \in DOMAIN ps}
            last(n) == CHOOSE i \in DOMAIN ps :
                          /\ n \in DOMAIN ps[i].Body.Attributes
                          /\ \A j \in DOMAIN ps :
                                n \in DOMAIN ps[j].Body.Attributes => j <= i
        IN  /\ ~dcRet.panic
            /\ dcRet.err = NilError
            /\ ~dcRet.b.providersNil
            /\ DOMAIN dcRet.b.RequiredProviders = names
            /\ \A n \in names :
                  dcRet.b.RequiredProviders[n]
                      = ClaimedProvider(dcFile, ps[last(n)].Body.Attributes[n])

\* the provider an attribute of a required_providers block declares
ProviderOf(file, attr) ==
    [Source |-> MapGet(parseAttributeToStringMap(file, attr).m, SourceKey),
     Version |-> MapGet(parseAttributeToStringMap(file, attr).m, VersionKey)]

\* the providers one required_providers block declares
BlockProviders(file, block) ==
    [n \in DOMAIN block.Body.Attributes |-> ProviderOf(file, block.Body.Attributes[n])]

\* the union of two provider maps, the declarations of the later one kept
Override(earlier, later) ==
    [n \in DOMAIN earlier \cup DOMAIN later |->
        IF n \in DOMAIN later THEN later[n] ELSE earlier[n]]

\* the union of the first k required_providers blocks, later blocks kept
RECURSIVE UnionOfBlocks(_, _, _)
UnionOfBlocks(file, ps, k) ==
    IF k = 0 THEN EmptyMap
    ELSE Override(UnionOfBlocks(file, ps, k - 1), BlockProviders(file, ps[k]))

\* the range over the attributes of a block taken in a given order
RECURSIVE ProvidersInOrder(_, _, _, _)
ProvidersInOrder(file, attrs, order, m) ==
    IF order = <<>> THEN m
    ELSE ProvidersInOrder(file, attrs, Tail(order),
                          MapPut(m, Head(order), ProviderOf(file, attrs[Head(order)])))

\* the orders a range over the names may take
Orders(names) ==
    {o \in [1..Cardinality(names) -> names] : \A i, j \in DOMAIN o : o[i] = o[j] => i = j}

\* C29: the provider map of a terraform block that decodes is the union of
\* the providers of all its required_providers blocks, a name declared in
\* several of them keeping the declaration of the later block, whatever
\* the order in which the attributes of a block are ranged over.
C29_LaterBlockWins ==
    (dcRet.done /\ ~dcRet.panic /\ dcRet.err = NilError /\ dcBlock.Type = "terraform") =>
        /\ dcRet.b.RequiredProviders
              = UnionOfBlocks(dcFile, ProviderBlocks(dcBlock), Len(ProviderBlocks(dcBlock)))
        /\ \A k \in DOMAIN ProviderBlocks(dcBlock) :
              \A o \in Orders(DOMAIN ProviderBlocks(dcBlock)[k].Body.Attributes) :
                  ProvidersInOrder(dcFile, ProviderBlocks(dcBlock)[k].Body.Attributes, o,
                                   UnionOfBlocks(dcFile, ProviderBlocks(dcBlock), k - 1))
                      = UnionOfBlocks(dcFile, ProviderBlocks(dcBlock), k)

\* a terraform block has decoded whose first required_providers block
\* gives aws a source and a version and whose later one a source alone:
\* aws has the later source and no version, x and y are kept
C29_Witness ==
    /\ dcRet.done
    /\ ~dcRet.panic
    /\ dcBlock.Type = "terraform"
    /\ dcBlock.Body.Blocks = <<RequiredProvidersFull, Lifecycle, RequiredProvidersAws>>
    /\ DOMAIN dcRet.b.RequiredProviders = {"aws", "x", "y"}
    /\ dcRet.b.RequiredProviders["aws"] = [Source |-> <<"e">>, Version |-> <<>>]

\* the validation blocks among the nested blocks of a block
ValidationBlocks(block) ==
    SelectSeq(block.Body.Blocks, LAMBDA b : b.Type = "validation")

IsComplete(validation) ==
    {"condition", "error_message"} \subseteq DOMAIN validation.Body.Attributes

\* C15: the validation blocks of a variable give one Validation record
\* each, in block order, when every one has condition and error_message;
\* when one lacks either, decoding the variable fails with an error that
\* names the variable.
C15_Validations ==
    (dcRet.done /\ dcBlock.Type = "variable" /\ Len(dcBlock.Labels) = 1) =>
        LET vs == ValidationBlocks(dcBlock)
        IN  IF \A i \in DOMAIN vs : IsComplete(vs[i])
            THEN /\ dcRet.err = NilError
                 /\ dcRet.b.Validation =
                       [i \in DOMAIN vs |->
                           [Condition |->
                                ExprToString(dcFile, vs[i].Body.Attributes["condition"].Expr),
                            ErrorMessage |->
                                ExprToString(dcFile,
                                             vs[i].Body.Attributes["error_message"].Expr)]]
            ELSE /\ dcRet.err # NilError
                 /\ dcRet.err.format = "error parsing validation for variable %s: %w"
                 /\ dcRet.err.arg = dcBlock.Labels[1]

\* a variable with two different validation blocks around a block of
\* another type has been decoded with both records in block order
C15_Witness ==
    /\ dcRet.done
    /\ dcBlock.Type = "variable"
    /\ dcRet.err = NilError
    /\ dcBlock.Body.Blocks = <<ValidationOther, Lifecycle, ValidationOk>>
    /\ Len(dcRet.b.Validation) = 2
    /\ dcRet.b.Validation[1].ErrorMessage = <<"t">>
    /\ dcRet.b.Validation[2].ErrorMessage = <<"e">>

\* the block with its value attribute set to the expression v, or taken
\* away when v is Absent
WithValue(block, v) ==
    Block(block.Type, block.Labels,
          [n \in (DOMAIN block.Body.Attributes \ {"value"})
                    \cup (IF v = Absent THEN {} ELSE {"value"}) |->
              IF n = "value" THEN Attribute("value", v) ELSE block.Body.Attributes[n]],
          block.Body.Blocks)

WorkDir == "workspace"

DotTf == <<".", "t", "f">>

\* filepath.Ext: the suffix from the last dot of the last path element
RECURSIVE Ext(_)
Ext(name) ==
    IF name = <<>> THEN <<>>
    ELSE IF Head(name) = "." /\ \A k \in 2..Len(name) : name[k] \notin {".", "/"}
    THEN name
    ELSE Ext(Tail(name))

NilFile == [nil |-> TRUE]
NilConfig == [nil |-> TRUE]

\* hclsyntax.ParseConfig: always a file, with the blocks it could recover,
\* and the diagnostics
ParseConfig(src) ==
    [file |-> [nil |-> FALSE, Bytes |-> src.Bytes, Body |-> src.Body],
     hasErrors |-> src.HasErrors]

\* hclparse.Parser.ParseHCL: a file already parsed under this name is
\* returned as it is, without diagnostics; a new one is parsed and kept
KeepFile(files, filename, parsed) ==
    [file |-> parsed.file, hasErrors |-> parsed.hasErrors,
     files |-> MapPut(files, filename, parsed.file)]

ParseHCL(files, src, filename) ==
    IF filename \in DOMAIN files
    THEN [file |-> files[filename], hasErrors |-> FALSE, files |-> files]
    ELSE KeepFile(files, filename, ParseConfig(src))

\* FileReader.ReadFile on the file system of the model
ReadFile(fsys, filename) ==
    LET found == {i \in 1..Len(fsys.Entries) : fsys.Entries[i].Name = filename}
    IN  IF found = {} THEN [ok |-> FALSE]
        ELSE LET entry == fsys.Entries[CHOOSE i \in found : TRUE]
             IN  IF entry.IsDir \/ ~entry.Readable THEN [ok |-> FALSE]
                 ELSE [ok |-> TRUE, content |-> entry.Content]

\* loadHcl once p.hcl.ParseHCL has returned r
AfterParseHCL(filename, r) ==
    IF r.file.nil \/ r.hasErrors
    THEN [err |-> ErrorfFile("failed to parse HCL syntax in %s: %w",
                             filename, Errorf("diagnostics")),
          file |-> NilFile, files |-> r.files]
    ELSE [err |-> NilError, file |-> r.file, files |-> r.files]

\* loadHcl once p.fs.ReadFile has returned content
AfterReadFile(files, filename, content) ==
    IF ~content.ok
    THEN [err |-> ErrorfFile("failed to read terraform file %s: %w", filename,
                             Errorf("read error")),
          file |-> NilFile, files |-> files]
    ELSE AfterParseHCL(filename, ParseHCL(files, content.content, filename))

\* Parser.loadHcl: [err, file, files]
loadHcl(files, fsys, filename) ==
    AfterReadFile(files, filename, ReadFile(fsys, filename))

\* the switch of parseBlocks: the decoder of a keyword, applied
ParseBlock(file, block) ==
    CASE block.Type = "variable" -> VariableParse(file, block)
      [] block.Type = "output" -> OutputParse(file, block)
      [] block.Type = "terraform" -> TerraformParse(file, block)

\* the switch without its terraform case
IsSupportedNoTerraform(block) == block.Type \in {"variable", "output"}

\* the cases of the switch of parseBlocks
IsSupported(block) == block.Type \in {"variable", "output", "terraform"}

\* the loop of parseBlocks: [panic, err, blocks]
RECURSIVE ParseBlocksFrom(_, _, _)
\* one turn of the loop once parsedBlock.Parse has returned r
AfterParse(file, todo, blocks, r) ==
    IF r.panic THEN [panic |-> TRUE, err |-> NilError, blocks |-> <<>>]
    ELSE IF r.err # NilError
    THEN [panic |-> FALSE,
          err |-> ErrorfWrap("failed to parse %s block: %w", Head(todo).Type, r.err),
          blocks |-> <<>>]
    ELSE ParseBlocksFrom(file, Tail(todo), Append(blocks, r.b))

ParseBlocksFrom(file, todo, blocks) ==
    IF todo = <<>> THEN [panic |-> FALSE, err |-> NilError, blocks |-> blocks]
    ELSE IF ~IsSupported(Head(todo)) THEN ParseBlocksFrom(file, Tail(todo), blocks)
    ELSE AfterParse(file, todo, blocks, ParseBlock(file, Head(todo)))

parseBlocks(file) == ParseBlocksFrom(file, file.Body, <<>>)

\* the body of the loop of ParseTerraformWorkspace for an entry that is a
\* .tf file: [panic, err, blocks, files]
\* the loop body once p.parseBlocks has returned parsed
AfterParseBlocks(name, files, parsed) ==
    IF parsed.panic
    THEN [panic |-> TRUE, err |-> NilError, blocks |-> <<>>, files |-> files]
    ELSE IF parsed.err # NilError
    THEN [panic |-> FALSE,
          err |-> ErrorfFile("failed to parse terraform blocks in %s: %w",
                             name, parsed.err),
          blocks |-> <<>>, files |-> files]
    ELSE [panic |-> FALSE, err |-> NilError, blocks |-> parsed.blocks,
          files |-> files]

\* the loop body once p.loadHcl has returned loaded
AfterLoadHcl(name, loaded) ==
    IF loaded.err # NilError
    THEN [panic |-> FALSE,
          err |-> ErrorfFile("failed to load terraform file %s: %w", name,
                             loaded.err),
          blocks |-> <<>>, files |-> loaded.files]
    ELSE AfterParseBlocks(name, loaded.files, parseBlocks(loaded.file))

ProcessFile(files, fsys, name) == AfterLoadHcl(name, loadHcl(files, fsys, name))

\* the parsing levels a Parser is made with: NewParser(fs, mode)
Modes == {"Simple", "Detail"}

\* the extended level that hands out no block, its decoding not being written
DetailUnimplemented(m, files, fsys, name) ==
    IF m = "Detail" THEN [ProcessFile(files, fsys, name) EXCEPT !.blocks = <<>>]
    ELSE ProcessFile(files, fsys, name)

\* the loop body at a parsing level: the extended level is a hook for the
\* keywords the base level skips, and skips them too
ProcessFileInMode(m, files, fsys, name) == ProcessFile(files, fsys, name)

\* the test that looks at the extension alone
HasTfExtension(entry) == Ext(entry.Name) = DotTf

\* !file.IsDir() && filepath.Ext(file.Name()) == ".tf"
IsTerraformFile(entry) == ~entry.IsDir /\ Ext(entry.Name) = DotTf

\* the blocks of the sample files
VariableX == Block("variable", <<"x">>, NoAttrs, <<>>)
VariableY == Block("variable", <<"y">>, Attrs([default |-> Quoted(<<"t">>)]), <<>>)
VariableNoLabel == Block("variable", <<>>, NoAttrs, <<>>)
OutputX == Block("output", <<"x">>, Attrs([sensitive |-> BoolLit(TRUE)]), <<>>)
TerraformEmpty == Block("terraform", <<>>, NoAttrs, <<>>)
TerraformNumberKey == Block("terraform", <<>>, NoAttrs, <<RequiredProvidersNumberKey>>)
ResourceX == Block("resource", <<"r", "x">>, Attrs([default |-> NullLit]), <<>>)
DataX == Block("data", <<"d", "x">>, NoAttrs, <<>>)
ModuleX == Block("module", <<"x">>, Attrs([source |-> Quoted(<<"t">>)]), <<>>)

Content(bytes, body, hasErrors) ==
    [Bytes |-> bytes, Body |-> body, HasErrors |-> hasErrors]

\* the sample files: two that decode, one whose second block does not, an
\* empty one, and one with a syntax error after its first block
FileSamples ==
    {Content(<<"1">>, <<VariableX, ResourceX, DataX, ModuleX, OutputX>>, FALSE),
     Content(<<"2">>, <<VariableY, TerraformEmpty, VariableY>>, FALSE),
     Content(<<"3">>, <<OutputX, VariableNoLabel, VariableY>>, FALSE),
     Content(<<>>, <<>>, FALSE),
     Content(<<"5">>, <<VariableX>>, TRUE),
     Content(<<"6">>, <<VariableNoLabel, TerraformNumberKey>>, FALSE)}

Letters == <<"a", "b", "c", "d", "e", "f", "g", "h">>

\* what the i-th entry of a listing may be: a .tf file, readable or not, a
\* file named x.tfvars, x.TF or x.tf.json, or a directory named like a .tf
\* file
EntriesAt(i) ==
    {[Name |-> <<Letters[i]>> \o DotTf, IsDir |-> FALSE, Readable |-> TRUE, Content |-> c] :
        c \in FileSamples}
    \cup {[Name |-> <<Letters[i]>> \o DotTf, IsDir |-> FALSE, Readable |-> FALSE,
           Content |-> Content(<<>>, <<>>, FALSE)],
          [Name |-> <<Letters[i]>> \o <<".", "t", "f", "v", "a", "r", "s">>, IsDir |-> FALSE,
           Readable |-> TRUE, Content |-> Content(<<"1">>, <<VariableX>>, FALSE)],
          [Name |-> <<Letters[i]>> \o <<".", "T", "F">>, IsDir |-> FALSE,
           Readable |-> TRUE, Content |-> Content(<<"1">>, <<VariableX>>, FALSE)],
          [Name |-> <<Letters[i]>> \o DotTf \o <<".", "j", "s", "o", "n">>, IsDir |-> FALSE,
           Readable |-> TRUE, Content |-> Content(<<"1">>, <<VariableX>>, FALSE)],
          [Name |-> <<Letters[i]>> \o DotTf, IsDir |-> TRUE, Readable |-> FALSE,
           Content |-> Content(<<>>, <<>>, FALSE)]}

Listings == UNION {{es \in [1..n -> UNION {EntriesAt(i) : i \in 1..n}] :
                       \A i \in 1..n : es[i] \in EntriesAt(i)} : n \in 0..MaxFiles}

\* DirExists answers yes, no or with an error, ReadDir works or not,
\* whatever the directory holds
FileSystems == [Exists : {"yes", "no", "error"}, ReadDirOk : BOOLEAN, Entries : Listings]

Ret(cfg, err) == [cfg |-> cfg, err |-> err]

NoRet == [none |-> TRUE]

\* between two calls a file of the directory is rewritten
WriteFile ==
    /\ pc \in {"idle", "done"}
    /\ ~written
    /\ \E i \in 1..Len(fs.Entries), c \in FileSamples :
          /\ ~fs.Entries[i].IsDir
          /\ fs.Entries[i].Readable
          /\ fs.Entries[i].Content # c
          /\ fs' = [fs EXCEPT !.Entries[i].Content = c]
    /\ written' = TRUE
    /\ UNCHANGED <<hclFiles, pc, dirFiles, idx, aggBlocks, ret, mode, exVars, dcVars, gitVars>>

\* ParseTerraformWorkspace is called
Call ==
    /\ pc \in {"idle", "done"}
    /\ pc' = "DirExists"
    /\ dirFiles' = <<>>
    /\ idx' = 1
    /\ aggBlocks' = <<>>
    /\ ret' = NoRet
    /\ UNCHANGED <<fs, hclFiles, written, mode, exVars, dcVars, gitVars>>

\* the call that goes on to the listing whatever DirExists answers
DirExistsIgnored ==
    /\ pc = "DirExists"
    /\ pc' = "ReadDir"
    /\ UNCHANGED <<fs, hclFiles, dirFiles, idx, aggBlocks, ret, written,
                   mode, exVars, dcVars, gitVars>>

\* p.fs.DirExists(dir) and the two returns after it
DirExists ==
    /\ pc = "DirExists"
    /\ IF fs.Exists = "error"
       THEN /\ ret' = Ret(NilConfig,
                          ErrorfWrap("failed to check terraform workspace directory: %w",
                                     WorkDir, Errorf("stat error")))
            /\ pc' = "done"
       ELSE IF fs.Exists = "no"
       THEN /\ ret' = Ret(NilConfig,
                          ErrorfArg("terraform workspace directory not found: %s", WorkDir))
            /\ pc' = "done"
       ELSE /\ ret' = ret
            /\ pc' = "ReadDir"
    /\ UNCHANGED <<fs, hclFiles, dirFiles, idx, aggBlocks, written,
                   mode, exVars, dcVars, gitVars>>

\* p.fs.ReadDir(dir)
ReadDir ==
    /\ pc = "ReadDir"
    /\ IF ~fs.ReadDirOk
       THEN /\ ret' = Ret(NilConfig,
                          ErrorfWrap("failed to read terraform workspace directory %s: %w",
                                     WorkDir, Errorf("readdir error")))
            /\ pc' = "done"
            /\ dirFiles' = dirFiles
       ELSE /\ dirFiles' = fs.Entries
            /\ pc' = "files"
            /\ ret' = ret
    /\ UNCHANGED <<fs, hclFiles, idx, aggBlocks, written,
                   mode, exVars, dcVars, gitVars>>

\* one turn of the loop over dirFiles, for an entry that is skipped
SkipEntry ==
    /\ pc = "files"
    /\ idx <= Len(dirFiles)
    /\ ~IsTerraformFile(dirFiles[idx])
    /\ idx' = idx + 1
    /\ UNCHANGED <<fs, hclFiles, pc, dirFiles, aggBlocks, ret, written, mode,
                   exVars, dcVars, gitVars>>

\* the return that hands out what was aggregated before the error
ReturnPartial(agg, err) == Ret(generateTerraformConfig(agg), err)

\* return nil, fmt.Errorf(...): no configuration, whatever was aggregated
ReturnError(agg, err) == Ret(NilConfig, err)

\* the aggregation that puts the blocks of a file before those of earlier files
PrependBlocks(agg, blocks) == blocks \o agg

\* aggBlocks = append(aggBlocks, blocks...)
AppendBlocks(agg, blocks) == agg \o blocks

\* the loop that notes the error of a file and goes on to the next entry
ProcessedKeepGoing(r) ==
    /\ hclFiles' = r.files
    /\ IF r.panic
       THEN pc' = "panic" /\ UNCHANGED <<idx, aggBlocks, ret>>
       ELSE IF r.err # NilError
       THEN /\ ret' = ReturnError(aggBlocks, r.err)
            /\ idx' = idx + 1
            /\ UNCHANGED <<pc, aggBlocks>>
       ELSE /\ aggBlocks' = AppendBlocks(aggBlocks, r.blocks)
            /\ idx' = idx + 1
            /\ UNCHANGED <<pc, ret>>

\* the loop body once the file is processed with r: a panic ends the
\* program, an error ends the call, the blocks are aggregated otherwise
Processed(r) ==
    /\ hclFiles' = r.files
    /\ IF r.panic
       THEN pc' = "panic" /\ UNCHANGED <<idx, aggBlocks, ret>>
       ELSE IF r.err # NilError
       THEN /\ ret' = ReturnError(aggBlocks, r.err)
            /\ pc' = "done"
            /\ UNCHANGED <<idx, aggBlocks>>
       ELSE /\ aggBlocks' = AppendBlocks(aggBlocks, r.blocks)
            /\ idx' = idx + 1
            /\ UNCHANGED <<pc, ret>>

\* one turn of the loop over dirFiles, for a .tf file: loadHcl, parseBlocks
LoadFile ==
    /\ pc = "files"
    /\ idx <= Len(dirFiles)
    /\ IsTerraformFile(dirFiles[idx])
    /\ Processed(ProcessFileInMode(mode, hclFiles, fs, dirFiles[idx].Name))
    /\ UNCHANGED <<fs, dirFiles, written, mode, exVars, dcVars, gitVars>>

\* after the loop: generateTerraformConfig and the return
Return ==
    /\ pc = "files"
    /\ idx > Len(dirFiles)
    /\ ret' = Ret(generateTerraformConfig(aggBlocks), NilError)
    /\ pc' = "done"
    /\ UNCHANGED <<fs, hclFiles, dirFiles, idx, aggBlocks, written, mode,
                   exVars, dcVars, gitVars>>

wsNext ==
    \/ WriteFile
    \/ Call
    \/ DirExists
    \/ ReadDir
    \/ SkipEntry
    \/ LoadFile
    \/ Return

\* Claims about the decoders that speak of the switch of parseBlocks.
\* What each decoder reads: the names of attributes and of nested blocks
ReadAttributes(keyword) ==
    CASE keyword = "variable" -> {"description", "type", "default", "sensitive"}
      [] keyword = "output" -> {"description", "sensitive"}
      [] keyword = "terraform" -> {"required_version", "experiments"}

ReadBlocks(keyword) ==
    CASE keyword = "variable" -> {"validation"}
      [] keyword = "output" -> {}
      [] keyword = "terraform" -> {"required_providers"}

\* the block without the attributes and the nested blocks its decoder
\* does not know
WithoutUnknown(block) ==
    Block(block.Type, block.Labels,
          [n \in DOMAIN block.Body.Attributes \cap ReadAttributes(block.Type) |->
              block.Body.Attributes[n]],
          SelectSeq(block.Body.Blocks, LAMBDA b : b.Type \in ReadBlocks(block.Type)))

Summarized == "none" \notin DOMAIN dcSum

Emits(obj, k) == k \in DOMAIN obj

\* the object of the decoded record in the summary
SummaryObject ==
    CASE dcRet.b.goType = "Variable" -> dcSum["variables"][1]
      [] dcRet.b.goType = "Output" -> dcSum["outputs"][1]
      [] dcRet.b.goType = "Terraform" -> dcSum["terraform"][1]

\* the key of the list the decoded record is put in
ListKey ==
    CASE dcRet.b.goType = "Variable" -> "variables"
      [] dcRet.b.goType = "Output" -> "outputs"
      [] dcRet.b.goType = "Terraform" -> "terraform"

\* the lists of the configuration: the one of the record, and no empty one
ListsRule == DOMAIN dcSum = {ListKey} /\ Len(dcSum[ListKey]) = 1

\* an omit-if-empty field f of the record under key k, empty when it is e
OmitRule(k, f, e) ==
    /\ Emits(SummaryObject, k) <=> dcRet.b[f] # e
    /\ Emits(SummaryObject, k) => SummaryObject[k] = dcRet.b[f]

\* the validations of a variable: omitted when there is none
ValidationRule ==
    /\ Emits(SummaryObject, "validation") <=> dcRet.b.Validation # <<>>
    /\ Emits(SummaryObject, "validation") =>
           /\ Len(SummaryObject["validation"]) = Len(dcRet.b.Validation)
           /\ \A i \in DOMAIN dcRet.b.Validation :
                  DOMAIN SummaryObject["validation"][i] = {"condition", "error_message"}

\* the providers of a terraform block: omitted when there is none
ProvidersRule ==
    /\ Emits(SummaryObject, "required_providers") <=>
           DOMAIN dcRet.b.RequiredProviders # {}
    /\ Emits(SummaryObject, "required_providers") =>
           DOMAIN SummaryObject["required_providers"] = DOMAIN dcRet.b.RequiredProviders

\* the fields always written
AlwaysRule(k, f) == Emits(SummaryObject, k) /\ SummaryObject[k] = dcRet.b[f]

\* what the claim says of every field but default
FieldRules ==
    CASE dcRet.b.goType = "Variable" ->
           /\ AlwaysRule("name", "Name")
           /\ AlwaysRule("required", "Required")
           /\ AlwaysRule("sensitive", "Sensitive")
           /\ OmitRule("description", "Description", <<>>)
           /\ OmitRule("type", "Type", <<>>)
           /\ ValidationRule
           /\ DOMAIN SummaryObject \subseteq
                  {"name", "description", "type", "default", "required", "sensitive",
                   "validation"}
      [] dcRet.b.goType = "Output" ->
           /\ AlwaysRule("name", "Name")
           /\ OmitRule("description", "Description", <<>>)
           /\ OmitRule("sensitive", "Sensitive", FALSE)
           /\ DOMAIN SummaryObject \subseteq {"name", "description", "sensitive"}
      [] dcRet.b.goType = "Terraform" ->
           /\ OmitRule("required_version", "RequiredVersion", <<>>)
           /\ OmitRule("experiments", "Experiments", <<>>)
           /\ ProvidersRule
           /\ DOMAIN SummaryObject \subseteq
                  {"required_version", "experiments", "required_providers"}

\* a default that is empty: none, or the empty string
EmptyDefault(v) == v = GoNil \/ v = GoString(<<>>)

\* C25 as stated: in the summary no empty list or map is written, a variable
\* always carries name, required and sensitive, and description, type,
\* default, validation, required_version, experiments and the sensitive of
\* an output are written only when they are not empty
C25_DefaultOnlyWhenNonEmpty ==
    Summarized =>
        /\ ListsRule
        /\ FieldRules
        /\ dcRet.b.goType = "Variable" =>
               (Emits(SummaryObject, "default") => ~EmptyDefault(dcRet.b.Default))

\* C25: in the summary no empty list or map is written, a variable always
\* carries name, required and sensitive, description, type, validation,
\* required_version, experiments and the sensitive of an output are written
\* exactly when they are not empty, and default exactly when the variable
\* has one that is not null, an empty string included
C25_OmitEmpty ==
    Summarized =>
        /\ ListsRule
        /\ FieldRules
        /\ dcRet.b.goType = "Variable" => OmitRule("default", "Default", GoNil)

\* a variable with the default "" and neither description nor validation
\* is summarised
C25_Witness ==
    /\ Summarized
    /\ dcRet.b.goType = "Variable"
    /\ DOMAIN SummaryObject = {"name", "type", "default", "required", "sensitive"}
    /\ SummaryObject["default"] = GoString(<<>>)
    /\ ~SummaryObject["required"]


(***************************************************************************)
(* Claims about the workspace parse (Spec).  A call has ended when pc is   *)
(* "done"; dirFiles is then the listing the call was given, and hclFiles   *)
(* holds, under its name, the file loadHcl returned for each entry the     *)
(* call processed.                                                         *)
(***************************************************************************)
\* the keyword of the first block of a file that its decoder refuses, "" if
\* there is none
RECURSIVE FirstFailing(_, _)
FirstFailing(file, todo) ==
    IF todo = <<>> THEN ""
    ELSE IF Head(todo).Type \in {"variable", "output", "terraform"}
            /\ ParseBlock(file, Head(todo)).err # NilError
    THEN Head(todo).Type
    ELSE FirstFailing(file, Tail(todo))

\* C5: if loading a .tf file or decoding a recognized block fails, the call
\* ends at once with no configuration at all and an error that names the
\* file and, for a decoding failure, the keyword of the failing block; a
\* call never ends with both a configuration and an error.
C5_FailFast ==
    [][/\ (pc = "files" /\ idx <= Len(dirFiles) /\ IsTerraformFile(dirFiles[idx])) =>
            LET name == dirFiles[idx].Name
                loaded == loadHcl(hclFiles, fs, name)
                keyword == IF loaded.err = NilError
                           THEN FirstFailing(loaded.file, loaded.file.Body) ELSE ""
            IN  (loaded.err # NilError \/ keyword # "") =>
                    /\ pc' = "done"
                    /\ ret'.cfg = NilConfig
                    /\ ret'.err # NilError
                    /\ ret'.err.file = name
                    /\ keyword # "" => ret'.err.wrapped.arg = keyword
       /\ pc' = "done" => (ret'.cfg = NilConfig <=> ret'.err # NilError)
      ]_vars

\* a call has ended without configuration on a block that does not decode,
\* after it had decoded the blocks of an earlier file
C5_Witness ==
    /\ pc = "done"
    /\ idx = 2
    /\ Len(dirFiles) = 2
    /\ ret.cfg = NilConfig
    /\ ret.err.format = "failed to parse terraform blocks in %s: %w"
    /\ ret.err.file = dirFiles[2].Name
    /\ ret.err.wrapped.arg = "variable"
    /\ aggBlocks # <<>>

\* the blocks of a keyword in the files of the entries, each with its file
RECURSIVE KeywordBlocks(_, _)
KeywordBlocks(entries, keyword) ==
    IF entries = <<>> THEN <<>>
    ELSE LET file == hclFiles[Head(entries).Name]
             found == SelectSeq(file.Body, LAMBDA b : b.Type = keyword)
         IN  [i \in 1..Len(found) |-> [file |-> file, block |-> found[i]]]
             \o KeywordBlocks(Tail(entries), keyword)

\* C7: in a call that succeeds every variable, output and terraform block of
\* every processed file gives exactly one record, decoded by the decoder of
\* its keyword, whatever other blocks stand around it; a block of another
\* keyword gives no record and is never the block a call fails on.
C7_DispatchByKeyword ==
    /\ (pc = "done" /\ ret.err = NilError) =>
          LET tf == SelectSeq(dirFiles, IsTerraformFile)
              vs == KeywordBlocks(tf, "variable")
              os == KeywordBlocks(tf, "output")
              ts == KeywordBlocks(tf, "terraform")
          IN  /\ ret.cfg.Variables =
                    [i \in 1..Len(vs) |-> VariableParse(vs[i].file, vs[i].block).b]
              /\ ret.cfg.Outputs =
                    [i \in 1..Len(os) |-> OutputParse(os[i].file, os[i].block).b]
              /\ ret.cfg.Terraform =
                    [i \in 1..Len(ts) |-> TerraformParse(ts[i].file, ts[i].block).b]
              /\ \A i \in 1..Len(vs) : ret.cfg.Variables[i].goType = "Variable"
              /\ \A i \in 1..Len(os) : ret.cfg.Outputs[i].goType = "Output"
              /\ \A i \in 1..Len(ts) : ret.cfg.Terraform[i].goType = "Terraform"
    /\ (pc = "done" /\ ret.err.format = "failed to parse terraform blocks in %s: %w") =>
          ret.err.wrapped.arg \in {"variable", "output", "terraform"}

\* a call has succeeded on a file with a resource block between a variable
\* block and an output block, and with a terraform block in another file
C7_Witness ==
    /\ pc = "done"
    /\ ret.err = NilError
    /\ \E i \in 1..Len(dirFiles) :
          /\ IsTerraformFile(dirFiles[i])
          /\ \E k \in 1..Len(hclFiles[dirFiles[i].Name].Body) :
                hclFiles[dirFiles[i].Name].Body[k].Type = "resource"
    /\ Len(ret.cfg.Variables) = 3
    /\ Len(ret.cfg.Outputs) = 1
    /\ Len(ret.cfg.Terraform) = 1

\* the keyword blocks of the files of the entries, counted
RECURSIVE CountBlocks(_, _)
CountBlocks(entries, keyword) ==
    IF entries = <<>> THEN 0
    ELSE (IF IsTerraformFile(Head(entries))
          THEN Cardinality({k \in 1..Len(hclFiles[Head(entries).Name].Body) :
                               hclFiles[Head(entries).Name].Body[k].Type = keyword})
          ELSE 0)
         + CountBlocks(Tail(entries), keyword)

\* the records of one kind, file by file in the order of the listing, and in
\* each file in the order of its blocks
RECURSIVE RecordsInOrder(_, _)
RecordsInOrder(entries, goType) ==
    IF entries = <<>> THEN <<>>
    ELSE (IF IsTerraformFile(Head(entries))
          THEN SelectType(parseBlocks(hclFiles[Head(entries).Name]).blocks, goType)
          ELSE <<>>)
         \o RecordsInOrder(Tail(entries), goType)

\* C8: each of the three lists of the configuration holds the records of its
\* kind in encounter order, the files in the order of the listing and the
\* blocks in their order in the file, and as many records as there are
\* blocks of its keyword: nothing is dropped for having a name seen before.
C8_EncounterOrder ==
    (pc = "done" /\ ret.err = NilError) =>
        /\ ret.cfg.Variables = RecordsInOrder(dirFiles, "Variable")
        /\ ret.cfg.Outputs = RecordsInOrder(dirFiles, "Output")
        /\ ret.cfg.Terraform = RecordsInOrder(dirFiles, "Terraform")
        /\ Len(ret.cfg.Variables) = CountBlocks(dirFiles, "variable")
        /\ Len(ret.cfg.Outputs) = CountBlocks(dirFiles, "output")
        /\ Len(ret.cfg.Terraform) = CountBlocks(dirFiles, "terraform")

\* a call has returned the variable of the first file before the two
\* variables of one name of the second file, and the same output twice
C8_Witness ==
    /\ pc = "done"
    /\ ret.err = NilError
    /\ Len(ret.cfg.Variables) = 3
    /\ ret.cfg.Variables[1].Name = "x"
    /\ ret.cfg.Variables[2].Name = "y"
    /\ ret.cfg.Variables[3].Name = "y"

\* what the loop over a listing returns on a Parser that has parsed nothing
RECURSIVE FreshLoop(_, _)
FreshLoop(entries, agg) ==
    IF entries = <<>> THEN Ret(generateTerraformConfig(agg), NilError)
    ELSE IF ~IsTerraformFile(Head(entries)) THEN FreshLoop(Tail(entries), agg)
    ELSE LET r == ProcessFile(EmptyMap, [Entries |-> <<Head(entries)>>],
                              Head(entries).Name)
         IN  IF r.err # NilError THEN Ret(NilConfig, r.err)
             ELSE FreshLoop(Tail(entries), agg \o r.blocks)

\* C9: calls on one Parser share no state: what a call returns is what a
\* new Parser returns for the listing and the file contents the call read.
C9_NoSharedState ==
    (pc = "done" /\ fs.Exists = "yes" /\ fs.ReadDirOk) =>
        ret = FreshLoop(dirFiles, <<>>)

\* the name ends in .tf, in these very letters
EndsInDotTf(name) ==
    /\ Len(name) >= 3
    /\ name[Len(name) - 2] = "."
    /\ name[Len(name) - 1] = "t"
    /\ name[Len(name)] = "f"

\* the names of the entries that are files whose name ends in .tf
TfNames(entries) ==
    {entries[i].Name : i \in {k \in DOMAIN entries :
                                ~entries[k].IsDir /\ EndsInDotTf(entries[k].Name)}}

\* C19: the call reads and parses exactly the entries that are no
\* directory and whose name has the extension .tf: a turn of the loop on
\* such an entry reads it (its file is kept under its name, or the call
\* ends with the error of loading it), a turn on any other entry (a
\* directory, also one named x.tf, or a file x.TF, x.tf.json, x.tfvars)
\* leaves everything as it is, and a call that succeeds has parsed every
\* such entry of the listing and nothing else.
C19_OnlyTfFilesRead ==
    [][/\ (pc = "files" /\ idx <= Len(dirFiles)) =>
            IF dirFiles[idx].Name \in TfNames(<<dirFiles[idx]>>)
            THEN \/ dirFiles[idx].Name \in DOMAIN hclFiles'
                 \/ /\ pc' = "done"
                    /\ ret'.err.format = "failed to load terraform file %s: %w"
                    /\ ret'.err.file = dirFiles[idx].Name
            ELSE /\ hclFiles' = hclFiles
                 /\ aggBlocks' = aggBlocks
                 /\ ret' = ret
                 /\ pc' = "files"
                 /\ idx' = idx + 1
       /\ DOMAIN hclFiles' \subseteq TfNames(fs'.Entries)
       /\ (pc' = "done" /\ ret'.err = NilError) => DOMAIN hclFiles' = TfNames(dirFiles')
      ]_vars

\* a call has succeeded on a listing of a readable file named a.TF and a
\* file b.tf, and has read the second alone
C19_Witness ==
    /\ pc = "done"
    /\ ret.err = NilError
    /\ Len(dirFiles) = 2
    /\ dirFiles[1].Name = <<"a", ".", "T", "F">>
    /\ dirFiles[1].Readable
    /\ ~dirFiles[1].IsDir
    /\ DOMAIN hclFiles = {<<"b", ".", "t", "f">>}

\* C20: the call checks the directory before anything else: when the
\* existence check errs or answers no, the call fails without listing the
\* directory or reading a file; when the listing errs, the call fails
\* without reading a file.
C20_DirectoryFirst ==
    /\ fs.Exists # "yes" =>
          /\ pc \in {"idle", "DirExists", "done"}
          /\ dirFiles = <<>>
          /\ hclFiles = EmptyMap
          /\ pc = "done" =>
                /\ ret.cfg = NilConfig
                /\ ret.err.format =
                      (IF fs.Exists = "error"
                       THEN "failed to check terraform workspace directory: %w"
                       ELSE "terraform workspace directory not found: %s")
    /\ (fs.Exists = "yes" /\ ~fs.ReadDirOk) =>
          /\ pc \in {"idle", "DirExists", "ReadDir", "done"}
          /\ hclFiles = EmptyMap
          /\ pc = "done" =>
                /\ ret.cfg = NilConfig
                /\ ret.err.format = "failed to read terraform workspace directory %s: %w"
    /\ pc = "ReadDir" => fs.Exists = "yes"
    /\ pc = "files" => fs.ReadDirOk

\* a call on a directory that holds a readable .tf file but is reported
\* not to exist has failed
C20_Witness ==
    /\ pc = "done"
    /\ fs.Exists = "no"
    /\ fs.ReadDirOk
    /\ Len(fs.Entries) = 2
    /\ IsTerraformFile(fs.Entries[1])
    /\ fs.Entries[1].Readable
    /\ ret.err.format = "terraform workspace directory not found: %s"

\* C21: a .tf file loads exactly when it can be read and its syntax has no
\* error; otherwise the call fails with an error that carries the file
\* name and, for a syntax error, the diagnostics.  A file of zero bytes
\* loads and contributes no record.
C21_LoadExactlyWhenClean ==
    [][(pc = "files" /\ idx <= Len(dirFiles) /\ IsTerraformFile(dirFiles[idx])) =>
            IF fs.Entries[idx].Readable /\ ~fs.Entries[idx].Content.HasErrors
            THEN /\ dirFiles[idx].Name \in DOMAIN hclFiles'
                 /\ pc' = "done" =>
                       ret'.err.format = "failed to parse terraform blocks in %s: %w"
                 /\ fs.Entries[idx].Content.Bytes = <<>> =>
                       /\ pc' = "files"
                       /\ idx' = idx + 1
                       /\ aggBlocks' = aggBlocks
            ELSE /\ pc' = "done"
                 /\ ret'.cfg = NilConfig
                 /\ ret'.err.format = "failed to load terraform file %s: %w"
                 /\ ret'.err.file = dirFiles[idx].Name
                 /\ fs.Entries[idx].Readable =>
                       /\ ret'.err.wrapped.format = "failed to parse HCL syntax in %s: %w"
                       /\ ret'.err.wrapped.file = dirFiles[idx].Name
                       /\ ret'.err.wrapped.wrapped = Errorf("diagnostics")
      ]_vars

OtherMode(m) == IF m = "Simple" THEN "Detail" ELSE "Simple"

\* the turn of the loop on the file of a name ends as r says, and a file
\* that decodes gives one record for each of its variable, output and
\* terraform blocks and none for its other blocks
TurnEndsAs(name, r) ==
    /\ hclFiles' = r.files
    /\ IF r.panic THEN pc' = "panic"
       ELSE IF r.err # NilError
       THEN pc' = "done" /\ ret' = Ret(NilConfig, r.err)
       ELSE /\ pc' = "files"
            /\ idx' = idx + 1
            /\ aggBlocks' = aggBlocks \o r.blocks
            /\ Len(r.blocks) =
                  Cardinality({k \in DOMAIN r.files[name].Body :
                                  r.files[name].Body[k].Type
                                      \in {"variable", "output", "terraform"}})

\* C24: parsing at the extended level gives what parsing at the base level
\* gives: every turn of the loop ends as it would at the other level, with
\* the same error or the same records, resource, data and module blocks
\* skipped at both.
C24_ModesAgree ==
    [][(pc = "files" /\ idx <= Len(dirFiles) /\ IsTerraformFile(dirFiles[idx])) =>
            TurnEndsAs(dirFiles[idx].Name,
                       ProcessFileInMode(OtherMode(mode), hclFiles, fs, dirFiles[idx].Name))
      ]_vars

\* a call at the extended level has succeeded on a file with a resource,
\* a data and a module block between a variable and an output
C24_Witness ==
    /\ pc = "done"
    /\ mode = "Detail"
    /\ ret.err = NilError
    /\ Len(dirFiles) = 1
    /\ IsTerraformFile(dirFiles[1])
    /\ Len(hclFiles[dirFiles[1].Name].Body) = 5
    /\ Len(ret.cfg.Variables) = 1
    /\ Len(ret.cfg.Outputs) = 1
    /\ Len(ret.cfg.Terraform) = 0

\* the recognized blocks of a file, in source order
Recognized(file) == SelectSeq(file.Body, IsSupported)

\* the block at position i decodes: neither an error nor a panic
DecodesAt(file, blocks, i) ==
    ~ParseBlock(file, blocks[i]).panic /\ ParseBlock(file, blocks[i]).err = NilError

\* every recognized block of the file decodes
AllDecode(file) ==
    \A i \in 1..Len(Recognized(file)) : DecodesAt(file, Recognized(file), i)

\* the records of the recognized blocks of a file, in source order
DecodedInOrder(file) ==
    [i \in 1..Len(Recognized(file)) |-> ParseBlock(file, Recognized(file)[i]).b]

\* the first recognized block that does not decode panics
FirstFailurePanics(file) ==
    \E i \in 1..Len(Recognized(file)) :
        /\ ParseBlock(file, Recognized(file)[i]).panic
        /\ \A j \in 1..(i - 1) : DecodesAt(file, Recognized(file), j)

\* the records of the .tf files among the first n entries, in listing order
RECURSIVE DecodedBefore(_, _, _)
DecodedBefore(files, entries, n) ==
    IF n = 0 THEN <<>>
    ELSE DecodedBefore(files, entries, n - 1)
         \o (IF IsTerraformFile(entries[n]) THEN DecodedInOrder(files[entries[n].Name])
             ELSE <<>>)

\* the turn of the loop that reads the .tf file at idx
ReadsFile == pc = "files" /\ idx <= Len(dirFiles) /\ IsTerraformFile(dirFiles[idx])

\* every .tf file before idx is in the file table and all its recognized
\* blocks decoded, and aggBlocks holds their records in order
EarlierFilesDone ==
    /\ \A j \in 1..(idx - 1) :
           IsTerraformFile(dirFiles[j]) =>
               /\ dirFiles[j].Name \in DOMAIN hclFiles
               /\ AllDecode(hclFiles[dirFiles[j].Name])
    /\ aggBlocks = DecodedBefore(hclFiles, dirFiles, idx - 1)

\* how the turn on the file that loadHcl answered with loaded has to end
TurnInOrder(loaded) ==
    IF loaded.err # NilError
    THEN pc' = "done" /\ idx' = idx /\ aggBlocks' = aggBlocks
    ELSE IF AllDecode(loaded.file)
    THEN /\ pc' = "files"
         /\ idx' = idx + 1
         /\ aggBlocks' = aggBlocks \o DecodedInOrder(loaded.file)
    ELSE /\ pc' = (IF FirstFailurePanics(loaded.file) THEN "panic" ELSE "done")
         /\ idx' = idx
         /\ aggBlocks' = aggBlocks

\* C27: the files are processed one at a time in the order of the listing.
\* The turn that reads a .tf file is taken only when every earlier .tf file
\* was loaded and had all its recognized blocks decoded; it adds the records
\* of the file in source order and moves to the next entry, or ends the call
\* at the first block that does not decode, the blocks after it untouched;
\* and once a call has ended no file is read before the next call.
C27_OneFileAtATime ==
    [][/\ ReadsFile =>
            /\ EarlierFilesDone
            /\ TurnInOrder(loadHcl(hclFiles, fs, dirFiles[idx].Name))
            /\ DOMAIN hclFiles' \subseteq DOMAIN hclFiles \cup {dirFiles[idx].Name}
       /\ ~ReadsFile => hclFiles' = hclFiles
       /\ pc = "done" => pc' = "DirExists" /\ aggBlocks' = <<>> /\ idx' = 1
       /\ pc = "panic" => pc' = "panic"
      ]_<<hclFiles, pc, dirFiles, idx, aggBlocks, ret>>

\* a call has ended on the second file, whose first block does not decode
\* and whose second would stop the program, after the first file was
\* decoded
C27_Witness ==
    /\ pc = "done"
    /\ idx = 2
    /\ Len(dirFiles) = 2
    /\ IsTerraformFile(dirFiles[2])
    /\ fs.Entries[2].Content.Body = <<VariableNoLabel, TerraformNumberKey>>
    /\ ret.err # NilError
    /\ Len(aggBlocks) = 3


(***************************************************************************)
(* The git source: GitSource.Fetch builds the clone options from the URL,  *)
(* the environment and the ref, clones, and hands the work tree over.      *)
(* Strings are sequences of characters.                                    *)
(***************************************************************************)
StrGithubCom == <<"g", "i", "t", "h", "u", "b", ".", "c", "o", "m">>

StrGitlabCom == <<"g", "i", "t", "l", "a", "b", ".", "c", "o", "m">>

StrGitlab == <<"g", "i", "t", "l", "a", "b">>

StrGithubPat == <<"g", "i", "t", "h", "u", "b", "_", "p", "a", "t", "_">>

StrToken == <<"t", "o", "k", "e", "n">>

StrXAccessToken == <<"x", "-", "a", "c", "c", "e", "s", "s", "-", "t", "o", "k", "e", "n">>

StrGitlabCiToken == <<"g", "i", "t", "l", "a", "b", "-", "c", "i", "-", "t", "o", "k", "e", "n">>

StrRefsHeads == <<"r", "e", "f", "s", "/", "h", "e", "a", "d", "s", "/">>

StrRefsTags == <<"r", "e", "f", "s", "/", "t", "a", "g", "s", "/">>

StrRelease == <<"r", "e", "l", "e", "a", "s", "e", "-">>

\* strings.HasPrefix
HasPrefix(s, p) == Len(s) >= Len(p) /\ SubSeq(s, 1, Len(p)) = p

\* strings.Contains
Contains(s, sub) ==
    \E i \in 0..(Len(s) - Len(sub)) : SubSeq(s, i + 1, i + Len(sub)) = sub

\* strings.Index and strings.LastIndex of one byte, 0 when it is not there
IndexByte(s, c) ==
    IF \E i \in DOMAIN s : s[i] = c
    THEN CHOOSE i \in DOMAIN s : s[i] = c /\ \A j \in 1..(i - 1) : s[j] # c
    ELSE 0

LastIndexByte(s, c) ==
    IF \E i \in DOMAIN s : s[i] = c
    THEN CHOOSE i \in DOMAIN s : s[i] = c /\ \A j \in (i + 1)..Len(s) : s[j] # c
    ELSE 0

DecimalDigits == {"0", "1", "2", "3", "4", "5", "6", "7", "8", "9"}

SchemeLetters ==
    {"a", "b", "c", "d", "e", "f", "g", "h", "i", "j", "k", "l", "m", "n", "o", "p",
     "q", "r", "s", "t", "u", "v", "w", "x", "y", "z", "A", "B", "C", "D", "E", "F",
     "G", "H", "I", "J", "K", "L", "M", "N", "O", "P", "Q", "R", "S", "T", "U", "V",
     "W", "X", "Y", "Z"}

\* url.getScheme: the first byte that ends the scan for a scheme, 0 if none
SchemeStop(u) ==
    LET stops(i) == ~(u[i] \in SchemeLetters \/ (i > 1 /\ u[i] \in DecimalDigits \cup {"+", "-", "."}))
    IN  IF \E i \in DOMAIN u : stops(i)
        THEN CHOOSE i \in DOMAIN u : stops(i) /\ \A j \in 1..(i - 1) : ~stops(j)
        ELSE 0

\* url.parseHost and url.validOptionalPort on a host that is no IP literal
ValidHost(host) ==
    LET i == LastIndexByte(host, ":")
    IN  /\ i # 0 => \A j \in (i + 1)..Len(host) : host[j] \in DecimalDigits
        /\ \A j \in DOMAIN host : host[j] \notin {" ", "%", "<", ">", "\""}

\* url.parseAuthority: the host after the last @
AuthorityHost(authority) ==
    SubSeq(authority, LastIndexByte(authority, "@") + 1, Len(authority))

\* url.Parse after the scheme is cut off: rest has neither query nor fragment
ParseRest(scheme, rest) ==
    IF ~HasPrefix(rest, <<"/">>) /\ scheme # <<>>
    THEN [err |-> FALSE, Host |-> <<>>]
    ELSE IF /\ ~HasPrefix(rest, <<"/">>)
            /\ LET cut == IndexByte(rest, "/")
                   segment == IF cut = 0 THEN rest ELSE SubSeq(rest, 1, cut - 1)
               IN  IndexByte(segment, ":") # 0
    THEN [err |-> TRUE, Host |-> <<>>]
    ELSE IF HasPrefix(rest, <<"/", "/">>) /\ (scheme # <<>> \/ ~HasPrefix(rest, <<"/", "/", "/">>))
    THEN LET after == SubSeq(rest, 3, Len(rest))
             slash == IndexByte(after, "/")
             authority == IF slash = 0 THEN after ELSE SubSeq(after, 1, slash - 1)
             host == AuthorityHost(authority)
         IN  IF ValidHost(host) THEN [err |-> FALSE, Host |-> host]
             ELSE [err |-> TRUE, Host |-> <<>>]
    ELSE [err |-> FALSE, Host |-> <<>>]

\* url.Parse: error, or the URL with its Host
UrlParse(u) ==
    LET stop == SchemeStop(u)
    IN  IF stop # 0 /\ u[stop] = ":"
        THEN IF stop = 1 THEN [err |-> TRUE, Host |-> <<>>]
             ELSE ParseRest(SubSeq(u, 1, stop - 1), SubSeq(u, stop + 1, Len(u)))
        ELSE ParseRest(<<>>, u)

\* URL.Hostname: the host without its port
Hostname(host) ==
    LET i == LastIndexByte(host, ":")
    IN  IF i = 0 THEN host ELSE SubSeq(host, 1, i - 1)

NilAuth == [nil |-> TRUE]

BasicAuth(username, password) ==
    [nil |-> FALSE, Username |-> username, Password |-> password]

\* the user name that goes with a GitHub or generic token
TokenUsername(token) ==
    IF HasPrefix(token, StrGithubPat) THEN StrXAccessToken ELSE StrToken

\* getAuthentication once the URL is parsed
AuthForHost(hostname, env) ==
    IF Contains(hostname, StrGithubCom) /\ env.GITHUB_TOKEN # <<>>
    THEN BasicAuth(TokenUsername(env.GITHUB_TOKEN), env.GITHUB_TOKEN)
    ELSE IF /\ Contains(hostname, StrGitlabCom) \/ Contains(hostname, StrGitlab)
            /\ env.GITLAB_TOKEN # <<>>
    THEN BasicAuth(StrGitlabCiToken, env.GITLAB_TOKEN)
    ELSE IF env.GIT_TOKEN # <<>>
    THEN BasicAuth(TokenUsername(env.GIT_TOKEN), env.GIT_TOKEN)
    ELSE NilAuth

getAuthentication(url, env) ==
    LET parsedURL == UrlParse(url)
    IN  IF parsedURL.err THEN NilAuth
        ELSE AuthForHost(ToLower(Hostname(parsedURL.Host)), env)

\* the regular expression \d+\.\d+(\.\d+)? on the whole of s
AllDigits(s) == s # <<>> /\ \A i \in DOMAIN s : s[i] \in DecimalDigits

IsVersion(s) ==
    \E i \in DOMAIN s :
        /\ s[i] = "."
        /\ AllDigits(SubSeq(s, 1, i - 1))
        /\ \/ AllDigits(SubSeq(s, i + 1, Len(s)))
           \/ \E j \in (i + 1)..Len(s) :
                 /\ s[j] = "."
                 /\ AllDigits(SubSeq(s, i + 1, j - 1))
                 /\ AllDigits(SubSeq(s, j + 1, Len(s)))

\* commitRegex: ^[a-f0-9]{7,64}$
MatchesCommit(ref) ==
    /\ Len(ref) \in 7..64
    /\ \A i \in DOMAIN ref : ref[i] \in DecimalDigits \cup {"a", "b", "c", "d", "e", "f"}

\* tagRegex: ^(v?\d+\.\d+(\.\d+)?|.*-\d+\.\d+(\.\d+)?|release-.+)$
MatchesTag(ref) ==
    \/ IsVersion(ref)
    \/ ref # <<>> /\ ref[1] = "v" /\ IsVersion(Tail(ref))
    \/ \E i \in DOMAIN ref : ref[i] = "-" /\ IsVersion(SubSeq(ref, i + 1, Len(ref)))
    \/ HasPrefix(ref, StrRelease) /\ Len(ref) > Len(StrRelease)

detectRefType(ref) ==
    IF ref = <<>> THEN "RefTypeBranch"
    ELSE IF MatchesCommit(ref) THEN "RefTypeCommit"
    ELSE IF MatchesTag(ref) THEN "RefTypeTag"
    ELSE "RefTypeBranch"

\* git.CloneOptions as Fetch first makes them
NewCloneOptions(url) ==
    [URL |-> url, Depth |-> 1, Auth |-> NilAuth, ReferenceName |-> <<>>,
     SingleBranch |-> FALSE]

\* Fetch: the reference of the clone options
WithReference(opts, ref) ==
    IF ref = <<>> THEN opts
    ELSE CASE detectRefType(ref) = "RefTypeBranch" ->
                [opts EXCEPT !.ReferenceName = StrRefsHeads \o ref, !.SingleBranch = TRUE]
           [] detectRefType(ref) = "RefTypeTag" ->
                [opts EXCEPT !.ReferenceName = StrRefsTags \o ref, !.SingleBranch = TRUE]
           [] detectRefType(ref) = "RefTypeCommit" -> opts

\* the repository at the URL: the tree of every branch, tag and commit
Remote ==
    [Head |-> <<"m", "a", "i", "n">>,
     Branches |-> (<<"m", "a", "i", "n">> :> "treeMain" @@ <<"d", "e", "v", "e", "l", "o", "p">> :> "treeDevelop"
                   @@ <<"f", "e", "a", "t", "u", "r", "e", "/", "x", "y", "z">> :> "treeFeature"),
     Tags |-> (<<"v", "1", ".", "0", ".", "0">> :> "treeV100" @@ <<"1", ".", "2", ".", "3">> :> "tree123"
               @@ <<"r", "e", "l", "e", "a", "s", "e", "-", "1", ".", "0">> :> "treeRelease10"),
     Commits |-> (<<"a", "b", "c", "1", "2", "3", "d", "e", "f">> :> "treeAbc123def")]

CloneError == [err |-> "clone", tree |-> "none"]

\* git.Clone: the work tree of the reference asked for, HEAD when none is
Clone(opts, remote, reachable) ==
    LET name == opts.ReferenceName
        branch == SubSeq(name, Len(StrRefsHeads) + 1, Len(name))
        tag == SubSeq(name, Len(StrRefsTags) + 1, Len(name))
    IN  IF ~reachable THEN CloneError
        ELSE IF name = <<>> THEN [err |-> "nil", tree |-> remote.Branches[remote.Head]]
        ELSE IF HasPrefix(name, StrRefsHeads) /\ branch \in DOMAIN remote.Branches
        THEN [err |-> "nil", tree |-> remote.Branches[branch]]
        ELSE IF HasPrefix(name, StrRefsTags) /\ tag \in DOMAIN remote.Tags
        THEN [err |-> "nil", tree |-> remote.Tags[tag]]
        ELSE CloneError

\* Fetch: what it returns after the clone
FetchResult(cloned, subDir) ==
    IF cloned.err # "nil"
    THEN [err |-> "failed to clone repository", tree |-> "none", rootPath |-> <<>>]
    ELSE [err |-> "nil", tree |-> cloned.tree,
          rootPath |-> IF subDir # <<>> THEN subDir ELSE <<".">>]

\* Fetch up to the authentication
GetAuthentication ==
    /\ gitPc = "fetch"
    /\ gitOpts' = [NewCloneOptions(gitSrc.URL) EXCEPT
                      !.Auth = getAuthentication(gitSrc.URL, gitEnv)]
    /\ gitPc' = "auth"
    /\ UNCHANGED <<gitSrc, gitEnv, gitRet, exVars, dcVars, wsVars>>

\* Fetch: the reference is set
SetReference ==
    /\ gitPc = "auth"
    /\ gitOpts' = WithReference(gitOpts, gitSrc.Config.Ref)
    /\ gitPc' = "clone"
    /\ UNCHANGED <<gitSrc, gitEnv, gitRet, exVars, dcVars, wsVars>>

\* Fetch: git.Clone, which the network lets through or not, and the return
CloneAndReturn ==
    /\ gitPc = "clone"
    /\ \E reachable \in BOOLEAN :
          gitRet' = FetchResult(Clone(gitOpts, Remote, reachable), gitSrc.Config.SubDir)
    /\ gitPc' = "done"
    /\ UNCHANGED <<gitSrc, gitEnv, gitOpts, exVars, dcVars, wsVars>>

gitNext == GetAuthentication \/ SetReference \/ CloneAndReturn

\* the inputs of the git source
Https == <<"h", "t", "t", "p", "s", ":", "/", "/">>

PathR == <<"/", "r">>

GitUrls ==
    {Https \o StrGithubCom \o PathR,
     Https \o <<"G", "i", "t", "H", "u", "b", ".", "c", "o", "m">> \o PathR,
     Https \o <<"a", "p", "i", ".">> \o StrGithubCom \o PathR,
     Https \o <<"u">> \o <<"@">> \o StrGithubCom \o <<":", "4", "4", "3">> \o PathR,
     Https \o StrGithubCom \o <<".", "e", "v", "i", "l", ".", "i", "o">> \o PathR,
     Https \o <<"n", "o", "t">> \o StrGithubCom \o PathR,
     Https \o StrGitlabCom \o PathR,
     Https \o StrGitlab \o <<".", "c", "o", "r", "p", ".", "i", "o">> \o PathR,
     Https \o <<"e", "x", "a", "m", "p", "l", "e", ".", "o", "r", "g">> \o PathR,
     Https \o <<"e", "x", "a", "m", "p", "l", "e", ".", "o", "r", "g", ":", "x">> \o PathR,
     <<"g", "i", "t">> \o <<"@">> \o StrGithubCom \o <<":", "o", "/", "r", ".", "g", "i", "t">>,
     <<":">> \o StrGithubCom,
     <<>>}

GitRefs ==
    {<<>>, <<"m", "a", "i", "n">>, <<"d", "e", "v", "e", "l", "o", "p">>, <<"f", "e", "a", "t", "u", "r", "e", "/", "x", "y", "z">>, <<"v", "1", ".", "0", ".", "0">>, <<"1", ".", "2", ".", "3">>, <<"r", "e", "l", "e", "a", "s", "e", "-", "1", ".", "0">>,
     <<"a", "b", "c", "1", "2", "3", "d", "e", "f">>, <<"v", "2">>}

GitEnvs ==
    [GITHUB_TOKEN : {<<>>, <<"g", "h", "p", "_", "1">>, <<"g", "i", "t", "h", "u", "b", "_", "p", "a", "t", "_", "1">>},
     GITLAB_TOKEN : {<<>>, <<"g", "l", "p", "a", "t", "_", "1">>},
     GIT_TOKEN : {<<>>, <<"t", "o", "k", "_", "1">>}]

NoGitSource == [URL |-> <<>>, Config |-> [Ref |-> <<>>, SubDir |-> <<>>]]

NoGitEnv == [GITHUB_TOKEN |-> <<>>, GITLAB_TOKEN |-> <<>>, GIT_TOKEN |-> <<>>]

NoFetch == [none |-> TRUE]

(***************************************************************************)
(* Claims about the git source (SpecGit).                                  *)
(***************************************************************************)
Fetched == gitPc = "done" /\ gitRet.err = "nil"

\* C26: when Fetch returns a tree, it is the tree at the ref: of the branch
\* of that name, of the tag of that name, of the commit of that hash, and
\* of the default branch when the ref is empty
C26_RefSelectsTree ==
    Fetched =>
        LET ref == gitSrc.Config.Ref
        IN  /\ ref = <<>> => gitRet.tree = Remote.Branches[Remote.Head]
            /\ ref \in DOMAIN Remote.Branches => gitRet.tree = Remote.Branches[ref]
            /\ ref \in DOMAIN Remote.Tags => gitRet.tree = Remote.Tags[ref]
            /\ ref \in DOMAIN Remote.Commits => gitRet.tree = Remote.Commits[ref]

\* github.com or a sub-domain of it
IsGithubHost(hostname) ==
    \/ hostname = StrGithubCom
    \/ /\ Len(hostname) > Len(StrGithubCom) + 1
       /\ SubSeq(hostname, Len(hostname) - Len(StrGithubCom), Len(hostname))
             = <<".">> \o StrGithubCom

\* a host with gitlab in its name
IsGitlabHost(hostname) == Contains(hostname, StrGitlab)

\* C30: the clone carries GITHUB_TOKEN only to github.com or a sub-domain of
\* it, GITLAB_TOKEN only to a GitLab host, and no credentials at all when
\* the URL cannot be parsed
C30_TokenOnlyToItsHost ==
    gitPc \in {"auth", "clone", "done"} =>
        LET parsedURL == UrlParse(gitSrc.URL)
            hostname == ToLower(Hostname(parsedURL.Host))
            auth == gitOpts.Auth
        IN  /\ parsedURL.err => auth = NilAuth
            /\ (~auth.nil /\ auth.Password = gitEnv.GITHUB_TOKEN) => IsGithubHost(hostname)
            /\ (~auth.nil /\ auth.Password = gitEnv.GITLAB_TOKEN) => IsGitlabHost(hostname)


(***************************************************************************)
(* The specifications: the attribute parsers alone, the decoders alone,    *)
(* and the workspace parse.                                                *)
(***************************************************************************)
InitExpr ==
    /\ \E b \in SrcSet \cup SampleSrcs :
          /\ exFile = [Bytes |-> b]
          /\ \E e \in exExprs(b) : exAttr = Attribute("attr", e)
    /\ exRet = [call |-> "none"]
    /\ dcFile = [Bytes |-> <<>>]
    /\ dcBlock = Block("variable", <<>>, NoAttrs, <<>>)
    /\ dcRet = [done |-> FALSE]
    /\ dcSum = [none |-> TRUE]
    /\ fs = [Exists |-> "no", ReadDirOk |-> TRUE, Entries |-> <<>>]
    /\ hclFiles = EmptyMap
    /\ pc = "idle"
    /\ dirFiles = <<>>
    /\ idx = 1
    /\ aggBlocks = <<>>
    /\ ret = NoRet
    /\ written = FALSE
    /\ mode = "Simple"
    /\ gitSrc = NoGitSource
    /\ gitEnv = NoGitEnv
    /\ gitOpts = NewCloneOptions(<<>>)
    /\ gitRet = NoFetch
    /\ gitPc = "idle"

SpecExpr == InitExpr /\ [][exNext]_vars

InitBlock ==
    /\ exFile = [Bytes |-> <<>>]
    /\ exAttr = Attribute("attr", OtherExpr("FunctionCallExpr", Rng(0, 0)))
    /\ exRet = [call |-> "none"]
    /\ dcFile = [Bytes |-> BlockSrc]
    /\ dcBlock \in dcBlocks
    /\ dcRet = [done |-> FALSE]
    /\ dcSum = [none |-> TRUE]
    /\ fs = [Exists |-> "no", ReadDirOk |-> TRUE, Entries |-> <<>>]
    /\ hclFiles = EmptyMap
    /\ pc = "idle"
    /\ dirFiles = <<>>
    /\ idx = 1
    /\ aggBlocks = <<>>
    /\ ret = NoRet
    /\ written = FALSE
    /\ mode = "Simple"
    /\ gitSrc = NoGitSource
    /\ gitEnv = NoGitEnv
    /\ gitOpts = NewCloneOptions(<<>>)
    /\ gitRet = NoFetch
    /\ gitPc = "idle"

SpecBlock == InitBlock /\ [][dcNext]_vars

Init ==
    /\ exFile = [Bytes |-> <<>>]
    /\ exAttr = Attribute("attr", OtherExpr("FunctionCallExpr", Rng(0, 0)))
    /\ exRet = [call |-> "none"]
    /\ dcFile = [Bytes |-> <<>>]
    /\ dcBlock = Block("variable", <<>>, NoAttrs, <<>>)
    /\ dcRet = [done |-> FALSE]
    /\ dcSum = [none |-> TRUE]
    /\ fs \in FileSystems
    /\ hclFiles = EmptyMap
    /\ pc = "idle"
    /\ dirFiles = <<>>
    /\ idx = 1
    /\ aggBlocks = <<>>
    /\ ret = NoRet
    /\ written = FALSE
    /\ mode \in Modes
    /\ gitSrc = NoGitSource
    /\ gitEnv = NoGitEnv
    /\ gitOpts = NewCloneOptions(<<>>)
    /\ gitRet = NoFetch
    /\ gitPc = "idle"

InitGit ==
    /\ exFile = [Bytes |-> <<>>]
    /\ exAttr = Attribute("attr", OtherExpr("FunctionCallExpr", Rng(0, 0)))
    /\ exRet = [call |-> "none"]
    /\ dcFile = [Bytes |-> <<>>]
    /\ dcBlock = Block("variable", <<>>, NoAttrs, <<>>)
    /\ dcRet = [done |-> FALSE]
    /\ dcSum = [none |-> TRUE]
    /\ fs = [Exists |-> "no", ReadDirOk |-> TRUE, Entries |-> <<>>]
    /\ hclFiles = EmptyMap
    /\ pc = "idle"
    /\ dirFiles = <<>>
    /\ idx = 1
    /\ aggBlocks = <<>>
    /\ ret = NoRet
    /\ written = FALSE
    /\ mode = "Simple"
    /\ gitSrc \in [URL : GitUrls, Config : [Ref : GitRefs, SubDir : {<<>>, <<"m">>}]]
    /\ gitEnv \in GitEnvs
    /\ gitOpts = NewCloneOptions(<<>>)
    /\ gitRet = NoFetch
    /\ gitPc = "fetch"

SpecGit == InitGit /\ [][gitNext]_vars

Next == wsNext

Spec == Init /\ [][Next]_vars

====
